---- MODULE Spec2Model ----
(***************************************************************************)
(* Filter-to-query translation and aggregation engine of the analytics    *)
(* backend: DataService (app/services/data.py) and SopService              *)
(* (app/services/sop.py), with the executor (ClickHouseDatabase) and the   *)
(* object storage (MinIOClient) as external collaborators.                 *)
(*                                                                         *)
(* Query text is a sequence of tokens.  A token records where a piece of   *)
(* the f-string came from:                                                 *)
(*   txt  fixed text of the program                                        *)
(*   ph   a named-parameter placeholder  %(name)s                          *)
(*   san  the characters an identifier sanitizer returned                  *)
(*   rawvalue  a caller-supplied value interpolated as it came             *)
(*   rawident  a caller-supplied identifier interpolated as it came        *)
(* A DataService identifier is a sequence of characters (the sanitizer     *)
(* filters characters); an SopService column name is one atom (its         *)
(* sanitizer tests membership in an allow-list).                           *)
(***************************************************************************)
EXTENDS Integers, Sequences, FiniteSets, TLC

VARIABLES
    pc,        \* position of the request being served
    req,       \* the request (service, operation and its fields)
    table,     \* DataService: the resolved table name
    calls,     \* executor and storage calls issued for the request, in order
    results,   \* what each issued call returned, in call order
    out,       \* the response or the error the request ended with
    filters,   \* filter translator alone: its input
    clause,    \* filter translator alone: its output
    store,     \* how many rows of the queried table match the request's filters
    db         \* the ClickHouseDatabase handle: its client and the clients made

vars == <<pc, req, table, calls, results, out, filters, clause, store, db>>

----------------------------------------------------------------------------
(* Bounds *)

MaxConds == 2    \* conditions of a FilterParams given to the translator alone
MaxRows == 2     \* rows one executor call returns
MaxTotal == 2    \* the count a count query returns

----------------------------------------------------------------------------
(* Text *)

Txt(s) == [k |-> "txt", v |-> <<s>>]
Ph(name) == [k |-> "ph", v |-> name]
San(chars) == [k |-> "san", v |-> chars]
RawValue(chars) == [k |-> "rawvalue", v |-> chars]
RawIdent(chars) == [k |-> "rawident", v |-> chars]

NoneV == "<None>"
EmptyMap == [x \in {} |-> x]

Some(items) == [some |-> TRUE, items |-> items]
Absent == [some |-> FALSE, items |-> <<>>]
\* Python truthiness of an optional list: None and [] are both false.
Truthy(opt) == opt.some /\ Len(opt.items) > 0

\* str(i) for the small integers that reach query text or parameter names.
IntStr(i) == <<"0", "1", "2", "3", "4", "5", "6", "7", "8", "9">>[i + 1]

RECURSIVE Flatten(_)
Flatten(ss) == IF ss = <<>> THEN <<>> ELSE Head(ss) \o Flatten(Tail(ss))

\* sep.join(parts), parts being token sequences.
RECURSIVE Join(_, _)
Join(sep, parts) ==
    IF parts = <<>> THEN <<>>
    ELSE IF Len(parts) = 1 THEN Head(parts)
    ELSE Head(parts) \o sep \o Join(sep, Tail(parts))

Range(s) == {s[i] : i \in DOMAIN s}

----------------------------------------------------------------------------
(* Identifier sanitizers *)

Alnum == {"c", "t", "1"}
IsAllowedChar(c) == c \in Alnum \/ c = "_"

\* The backquote character that quotes an identifier.
Quote == Txt("<backquote>")

\* DataService._sanitize_identifier: keep alphanumerics and underscores, quote.
SanitizeIdentifier(identifier) ==
    <<Quote, San(SelectSeq(identifier, IsAllowedChar)), Quote>>

----------------------------------------------------------------------------
(* Filter translator of DataService *)

Operators ==
    {"eq", "neq", "gt", "gte", "lt", "lte", "in", "not_in", "like", "ilike",
     "between", "is_null", "is_not_null"}

ComparisonText(op) ==
    CASE op = "eq" -> " = "
      [] op = "neq" -> " != "
      [] op = "gt" -> " > "
      [] op = "gte" -> " >= "
      [] op = "lt" -> " < "
      [] op = "lte" -> " <= "
      [] op = "like" -> " LIKE "

\* A parameter name that counts the conditions from one.
ParamNameFromOne(prefix, i) == <<prefix, "_", IntStr(i + 1)>>

\* A parameter name that forgets the condition's index.
ParamNameNoIndex(prefix, i) == <<prefix, "_", IntStr(0)>>

\* f"{param_prefix}_{i}"
ParamName(prefix, i) == <<prefix, "_", IntStr(i)>>

\* DataService._build_condition: the clause text, and the params dict as the
\* call leaves it ("" is the empty token sequence).
BuildCondition(condition, param_name, params) ==
    LET field == SanitizeIdentifier(condition.field)
        op == condition.operator
    IN  CASE op \in {"eq", "neq", "gt", "gte", "lt", "lte", "like"} ->
               [clause |-> field \o <<Txt(ComparisonText(op)), Ph(param_name)>>,
                params |-> (param_name :> condition.value) @@ params]
          [] op = "in" ->
               [clause |-> field \o <<Txt(" IN "), Ph(param_name)>>,
                params |-> (param_name :>
                              (IF Truthy(condition.values)
                               THEN condition.values.items
                               ELSE <<condition.value>>)) @@ params]
          [] op = "not_in" ->
               [clause |-> field \o <<Txt(" NOT IN "), Ph(param_name)>>,
                params |-> (param_name :>
                              (IF Truthy(condition.values)
                               THEN condition.values.items
                               ELSE <<condition.value>>)) @@ params]
          [] op = "ilike" ->
               [clause |-> <<Txt("lower(")>> \o field
                             \o <<Txt(") LIKE lower("), Ph(param_name), Txt(")")>>,
                params |-> (param_name :> condition.value) @@ params]
          [] op = "between" ->
               IF Truthy(condition.values) /\ Len(condition.values.items) >= 2
               THEN [clause |-> field \o <<Txt(" BETWEEN "),
                                           Ph(Append(param_name, "_min")),
                                           Txt(" AND "),
                                           Ph(Append(param_name, "_max"))>>,
                     params |-> (Append(param_name, "_min") :> condition.values.items[1])
                                @@ (Append(param_name, "_max") :> condition.values.items[2])
                                @@ params]
               ELSE [clause |-> <<>>, params |-> params]
          [] op = "is_null" ->
               [clause |-> field \o <<Txt(" IS NULL")>>, params |-> params]
          [] op = "is_not_null" ->
               [clause |-> field \o <<Txt(" IS NOT NULL")>>, params |-> params]
          [] OTHER -> [clause |-> <<>>, params |-> params]

\* A comparison of the logic string as it is written.
UpperAsWritten(s) == s

\* str.upper() on the logic strings the model draws.
Upper(s) ==
    CASE s = "and" -> "AND"
      [] s = "And" -> "AND"
      [] s = "or" -> "OR"
      [] s = "xor" -> "XOR"
      [] OTHER -> s

\* The loop of _build_filter_clause from index i on: the clauses kept and the
\* params dict after the last condition.
RECURSIVE FilterLoop(_, _, _, _, _)
FilterLoop(conditions, i, param_prefix, clauses, params) ==
    IF i >= Len(conditions) THEN [clauses |-> clauses, params |-> params]
    ELSE LET r == BuildCondition(conditions[i + 1], ParamName(param_prefix, i), params)
         IN  FilterLoop(conditions, i + 1, param_prefix,
                        IF r.clause # <<>> THEN Append(clauses, r.clause) ELSE clauses,
                        r.params)

NoFilters == [some |-> FALSE, conditions |-> <<>>, logic |-> "AND"]

\* A translator for which no condition means a predicate that is never true.
BuildFilterClauseMatchNothing(f, param_prefix) ==
    IF ~f.some \/ f.conditions = <<>>
    THEN [text |-> <<Txt("1 = 0")>>, params |-> EmptyMap]
    ELSE LET r == FilterLoop(f.conditions, 0, param_prefix, <<>>, EmptyMap)
         IN  [text |-> <<Txt("(")>> \o Join(<<Txt(" AND ")>>, r.clauses) \o <<Txt(")")>>,
              params |-> r.params]

\* DataService._build_filter_clause: (predicate text, params).
BuildFilterClause(f, param_prefix) ==
    IF ~f.some \/ f.conditions = <<>> THEN [text |-> <<>>, params |-> EmptyMap]
    ELSE LET r == FilterLoop(f.conditions, 0, param_prefix, <<>>, EmptyMap)
             logic == IF Upper(f.logic) = "AND" THEN " AND " ELSE " OR "
         IN  IF r.clauses = <<>> THEN [text |-> <<>>, params |-> EmptyMap]
             ELSE [text |-> <<Txt("(")>> \o Join(<<Txt(logic)>>, r.clauses)
                              \o <<Txt(")")>>,
                   params |-> r.params]

----------------------------------------------------------------------------
(* Inputs of the filter translator *)

SeqsUpTo(S, n) == UNION {[1..k -> S] : k \in 0..n}

Cond(f, op, value, values) ==
    [field |-> f, operator |-> op, value |-> value, values |-> values]

ValueLists == {Absent, Some(<<>>), Some(<<"v1">>), Some(<<"v1", "v2">>)}

\* Every operator on a clean field, a field with a character outside the
\* allowed class, and the list operators with each shape of values.
Conditions ==
    {Cond(<<"c">>, op, "v1", Absent) : op \in Operators \ {"between"}}
    \cup {Cond(<<"c", ";", "1">>, "eq", "v1", Absent)}
    \cup {Cond(<<"c">>, op, NoneV, vs) : op \in {"in", "between"}, vs \in ValueLists}

LogicStrings == {"AND", "OR", "and", "And", "xor", ""}

FilterSets ==
    {NoFilters}
    \cup {[some |-> TRUE, conditions |-> cs, logic |-> l] :
             cs \in SeqsUpTo(Conditions, MaxConds), l \in LogicStrings}

NoClause == [done |-> FALSE, text |-> <<>>, params |-> EmptyMap, error |-> "none"]

----------------------------------------------------------------------------
(* The request engine is idle while the translator is exercised alone. *)

\* The handle as constructed (_client is None, written 0), and as the
\* application's lifespan leaves it for the requests: connected to the first
\* client made.  Clients are numbered in the order they are made.
NoDb == [client |-> 0, made |-> 0, connecting |-> 0, closed |-> {}]
Connected == [client |-> 1, made |-> 1, connecting |-> 0, closed |-> {}]

NoReq == [svc |-> "none", op |-> "none"]
NoOut == [kind |-> "none"]

EngineIdle ==
    /\ pc = "idle"
    /\ req = NoReq
    /\ table = <<>>
    /\ calls = <<>>
    /\ results = <<>>
    /\ out = NoOut

InitFilter ==
    /\ EngineIdle
    /\ store = 0
    /\ db = NoDb
    /\ filters \in FilterSets
    /\ clause = NoClause

\* One call of DataService._build_filter_clause(filters) with the default prefix.
TranslateFilter ==
    /\ ~clause.done
    /\ LET r == BuildFilterClause(filters, "f")
       IN  clause' = [done |-> TRUE, text |-> r.text, params |-> r.params,
                      error |-> "none"]
    /\ UNCHANGED <<pc, req, table, calls, results, out, filters, store, db>>

NextFilter == TranslateFilter

SpecFilter == InitFilter /\ [][NextFilter]_vars

----------------------------------------------------------------------------
(* Executor and storage calls *)

Call(op, role, text, params) ==
    [op |-> op, role |-> role, text |-> text, params |-> params]

Failed == [ok |-> FALSE, rows |-> <<>>]
Returned(rs) == [ok |-> TRUE, rows |-> rs]

ErrorOut(e) == [kind |-> "error", error |-> e]

Map(f(_), s) == [i \in DOMAIN s |-> f(s[i])]

----------------------------------------------------------------------------
(* DataService: query assembly *)

WhereSql(where_clause) ==
    IF where_clause # <<>> THEN <<Txt("WHERE ")>> \o where_clause ELSE <<>>

\* s.order.value.upper()
OrderText(order) == IF order = "desc" THEN " DESC" ELSE " ASC"

\* A sort item that drops the requested direction.
SortPartAscending(s) == SanitizeIdentifier(s.field) \o <<Txt(" ASC")>>

\* f"{self._sanitize_identifier(s.field)} {s.order.value.upper()}"
SortPart(s) == SanitizeIdentifier(s.field) \o <<Txt(OrderText(s.order))>>

OrderSql(sort) ==
    IF sort # <<>>
    THEN <<Txt("ORDER BY ")>> \o Join(<<Txt(", ")>>, Map(SortPart, sort))
    ELSE <<>>

SelectColumns(columns) ==
    IF Truthy(columns)
    THEN Join(<<Txt(", ")>>, Map(SanitizeIdentifier, columns.items))
    ELSE <<Txt("*")>>

Offset(r) == (r.page - 1) * r.page_size

\* The count query of a row query whose count runs with the row query's own
\* parameter map.
DataCountQueryKeepsPaging(r, t) ==
    LET f == BuildFilterClause(r.filters, "f")
    IN  Call("fetch_one", "count",
             <<Txt("SELECT count() as total FROM ")>> \o SanitizeIdentifier(t)
                 \o WhereSql(f.text),
             (<<"limit">> :> r.page_size) @@ (<<"offset">> :> Offset(r)) @@ f.params)

\* DataService.query_data, the paged row query.
DataRowQuery(r, t) ==
    LET f == BuildFilterClause(r.filters, "f")
    IN  Call("fetch_all", "data",
             <<Txt("SELECT ")>> \o SelectColumns(r.columns)
                 \o <<Txt(" FROM ")>> \o SanitizeIdentifier(t)
                 \o WhereSql(f.text) \o OrderSql(r.sort)
                 \o <<Txt(" LIMIT "), Ph(<<"limit">>), Txt(" OFFSET "), Ph(<<"offset">>)>>,
             f.params @@ (<<"limit">> :> r.page_size) @@ (<<"offset">> :> Offset(r)))

\* DataService.query_data, the paired count query.
DataCountQuery(r, t) ==
    LET f == BuildFilterClause(r.filters, "f")
    IN  Call("fetch_one", "count",
             <<Txt("SELECT count() as total FROM ")>> \o SanitizeIdentifier(t)
                 \o WhereSql(f.text),
             f.params)

\* DataService._get_column_info: the table name goes in as a parameter.
ColumnInfoQuery(t) ==
    Call("fetch_all", "columns",
         <<Txt("SELECT name, type FROM system.columns WHERE table = "), Ph(<<"table">>)>>,
         (<<"table">> :> t))

\* DataService._resolve_table_name, the data_sources lookup.
LookupQuery(data_source_id) ==
    Call("fetch_one", "lookup",
         <<Txt("SELECT table_name, query FROM data_sources WHERE id = "), Ph(<<"id">>)>>,
         (<<"id">> :> data_source_id))

\* source.get("table_name") or f"({source.get('query')})"
SourceTable(source) ==
    IF source.table_name # <<>> THEN source.table_name
    ELSE <<"(">> \o source.query \o <<")">>
\* A page count that drops the last, partly filled page.
PagesRoundedDown(total, page_size) == total \div page_size


\* (total + page_size - 1) // page_size
Pages(total, page_size) == (total + page_size - 1) \div page_size

\* A time function that buckets by day when it does not know the granularity.
GetTimeFunctionDefaultDay(granularity, column) ==
    LET col == SanitizeIdentifier(column)
        Trunc(fn) == <<Txt(fn), Txt("(")>> \o col \o <<Txt(")")>>
    IN  CASE granularity = "minute" -> Trunc("toStartOfMinute")
          [] granularity = "hour" -> Trunc("toStartOfHour")
          [] granularity = "week" -> Trunc("toStartOfWeek")
          [] granularity = "month" -> Trunc("toStartOfMonth")
          [] granularity = "quarter" -> Trunc("toStartOfQuarter")
          [] granularity = "year" -> Trunc("toStartOfYear")
          [] OTHER -> Trunc("toStartOfDay")

\* DataService._get_time_function
GetTimeFunction(granularity, column) ==
    LET col == SanitizeIdentifier(column)
        Trunc(fn) == <<Txt(fn), Txt("(")>> \o col \o <<Txt(")")>>
    IN  CASE granularity = "minute" -> Trunc("toStartOfMinute")
          [] granularity = "hour" -> Trunc("toStartOfHour")
          [] granularity = "day" -> Trunc("toStartOfDay")
          [] granularity = "week" -> Trunc("toStartOfWeek")
          [] granularity = "month" -> Trunc("toStartOfMonth")
          [] granularity = "quarter" -> Trunc("toStartOfQuarter")
          [] granularity = "year" -> Trunc("toStartOfYear")
          [] OTHER -> col

\* request.time_column and request.time_granularity
HasTimeBucket(r) == r.time_column # <<>> /\ r.time_granularity # NoneV

\* agg.alias or f"{agg.function.value}_{agg.column}"
Alias(agg) ==
    IF agg.alias # <<>> THEN agg.alias ELSE <<agg.function, "_">> \o agg.column

\* f"{agg.function.value}({col}) as `{alias}`"
AggPart(agg) ==
    <<Txt(agg.function), Txt("(")>> \o SanitizeIdentifier(agg.column)
        \o <<Txt(") as "), Quote, RawIdent(Alias(agg)), Quote>>

RawName(col) == col

\* A column list that puts the aggregation aliases before the group keys.
DataResultColumnsAliasesFirst(r) ==
    Map(Alias, r.aggregations)
    \o (IF HasTimeBucket(r) THEN <<(<<"time_bucket">>)>> ELSE <<>>)
    \o r.group_by

\* DataService.aggregate_data: result_columns
DataResultColumns(r) ==
    (IF HasTimeBucket(r) THEN <<(<<"time_bucket">>)>> ELSE <<>>)
    \o Map(RawName, r.group_by)
    \o Map(Alias, r.aggregations)

\* DataService.aggregate_data: group_by_cols
DataGroupByCols(r) ==
    (IF HasTimeBucket(r) THEN <<(<<Txt("time_bucket")>>)>> ELSE <<>>)
    \o Map(SanitizeIdentifier, r.group_by)

\* DataService.aggregate_data: select_parts
DataSelectParts(r) ==
    (IF HasTimeBucket(r)
     THEN <<GetTimeFunction(r.time_granularity, r.time_column)
              \o <<Txt(" as time_bucket")>>>>
     ELSE <<>>)
    \o Map(SanitizeIdentifier, r.group_by)
    \o Map(AggPart, r.aggregations)

\* DataService.aggregate_data, the aggregation query.
DataAggQuery(r, t) ==
    LET f == BuildFilterClause(r.filters, "f")
        group_by_cols == DataGroupByCols(r)
        group_by_sql == IF group_by_cols # <<>>
                        THEN <<Txt("GROUP BY ")>> \o Join(<<Txt(", ")>>, group_by_cols)
                        ELSE <<>>
        order_sql == IF r.sort # <<>> THEN OrderSql(r.sort)
                     ELSE IF group_by_cols # <<>>
                          THEN <<Txt("ORDER BY ")>> \o group_by_cols[1]
                          ELSE <<>>
    IN  Call("fetch_all", "data",
             <<Txt("SELECT ")>> \o Join(<<Txt(", ")>>, DataSelectParts(r))
                 \o <<Txt(" FROM ")>> \o SanitizeIdentifier(t)
                 \o WhereSql(f.text) \o group_by_sql \o order_sql
                 \o <<Txt(" LIMIT "), Ph(<<"limit">>)>>,
             f.params @@ (<<"limit">> :> r.limit))

\* DataService.get_chart_data: the aggregation of the i-th y-column (i from 0).
YAggregation(r, i) ==
    IF Truthy(r.y_aggregations) /\ i < Len(r.y_aggregations.items)
    THEN r.y_aggregations.items[i + 1]
    ELSE "avg"

\* DataService.get_chart_data, the query of the i-th y-column (i from 0).
DataChartQuery(r, t, i) ==
    LET f == BuildFilterClause(r.filters, "f")
        x_expr == IF r.time_granularity # NoneV
                  THEN GetTimeFunction(r.time_granularity, r.x_column)
                  ELSE SanitizeIdentifier(r.x_column)
    IN  Call("fetch_all", "data",
             <<Txt("SELECT ")>> \o x_expr \o <<Txt(" as x, "), Txt(YAggregation(r, i)), Txt("(")>>
                 \o SanitizeIdentifier(r.y_columns[i + 1]) \o <<Txt(") as y FROM ")>>
                 \o SanitizeIdentifier(t) \o WhereSql(f.text)
                 \o <<Txt(" GROUP BY x ORDER BY x LIMIT "), Ph(<<"limit">>)>>,
             f.params @@ (<<"limit">> :> r.limit))

\* f"LIMIT {request.limit}" if request.limit else ""  (None and 0 are both
\* false; the model writes both as 0).
LimitSql(limit) ==
    IF limit # 0 THEN <<Txt("LIMIT "), RawValue(<<IntStr(limit)>>)>> ELSE <<>>

\* DataService.export_data, the export query.
DataExportQuery(r, t) ==
    LET f == BuildFilterClause(r.filters, "f")
    IN  Call("fetch_all", "data",
             <<Txt("SELECT ")>> \o SelectColumns(r.columns)
                 \o <<Txt(" FROM ")>> \o SanitizeIdentifier(t)
                 \o WhereSql(f.text) \o LimitSql(r.limit),
             f.params)

\* DataService._generate_csv: the lines of the file (a header line of the
\* first row's keys, then one line per row); nothing at all for no rows.
DataGenerateCsv(data) ==
    IF data = <<>> THEN <<>>
    ELSE <<[header |-> DOMAIN data[1]]>> \o data

\* json.dumps(data, default=str, indent=2): the list brackets and the rows.
JsonDumps(data) == <<"[">> \o data \o <<"]">>

\* The encoder chosen by request.format.
DataEncode(format, data) ==
    IF format = "json"
    THEN [content |-> JsonDumps(data), content_type |-> "application/json", ext |-> ".json"]
    ELSE [content |-> DataGenerateCsv(data), content_type |-> "text/csv", ext |-> ".csv"]

UploadCall(content, content_type) ==
    [op |-> "upload_file", role |-> "upload", text |-> <<>>, params |-> EmptyMap,
     file_data |-> content, content_type |-> content_type]

PresignCall ==
    [op |-> "get_presigned_url", role |-> "url", text |-> <<>>, params |-> EmptyMap]

----------------------------------------------------------------------------
(* DataService: requests *)

Source(id, t) == [data_source_id |-> id, table_name |-> t]

\* table_name None or "" is <<>> (both false); data_source_id None is NoneV.
DataSources ==
    {Source(NoneV, <<>>), Source(NoneV, <<"t">>), Source(NoneV, <<"t", ";">>),
     Source("ds1", <<>>), Source("ds1", <<"t">>)}

\* Rows of data_sources a lookup can find: a table source and a query source.
StoredSources ==
    {[table_name |-> <<"t">>, query |-> <<>>],
     [table_name |-> <<>>, query |-> <<"t", " ", "c">>]}

Filter(cs, l) == [some |-> TRUE, conditions |-> cs, logic |-> l]

SomeFilterSets ==
    {NoFilters,
     Filter(<<>>, "AND"),
     Filter(<<Cond(<<"c">>, "eq", "v1", Absent)>>, "AND"),
     Filter(<<Cond(<<"c", ";", "1">>, "in", NoneV, Some(<<"v1", "v2">>)),
              Cond(<<"c">>, "between", NoneV, Some(<<"v1", "v2">>))>>, "OR"),
     Filter(<<Cond(<<"c">>, "between", NoneV, Absent)>>, "AND")}

FewFilterSets ==
    {NoFilters,
     Filter(<<Cond(<<"c", ";", "1">>, "in", NoneV, Some(<<"v1", "v2">>)),
              Cond(<<"c">>, "between", NoneV, Some(<<"v1", "v2">>))>>, "OR")}

SomeColumnLists == {Absent, Some(<<(<<"c">>)>>), Some(<<(<<"c", ";", "1">>), (<<"c">>)>>)}

Sort(f, o) == [field |-> f, order |-> o]
SomeSorts == {<<>>, <<Sort(<<"c", ";", "1">>, "desc")>>}

Paging == {[page |-> 1, page_size |-> 1], [page |-> 2, page_size |-> 2]}

DataQueryRequests ==
    {[svc |-> "data", op |-> "query",
      data_source_id |-> src.data_source_id, table_name |-> src.table_name,
      columns |-> cols, filters |-> f, sort |-> srt,
      page |-> pg.page, page_size |-> pg.page_size] :
        src \in DataSources, cols \in SomeColumnLists, f \in SomeFilterSets,
        srt \in SomeSorts, pg \in Paging}

Agg(col, fn, alias) == [column |-> col, function |-> fn, alias |-> alias]

\* alias None or "" is <<>>.
SomeAggregationLists ==
    {<<Agg(<<"c">>, "sum", <<>>)>>,
     <<Agg(<<"c", ";", "1">>, "count", <<>>), Agg(<<"c">>, "avg", <<"t", ";">>)>>,
     <<Agg(<<"c">>, "avg", <<"t", ";">>), Agg(<<"c", ";", "1">>, "count", <<>>)>>,
     <<Agg(<<"c">>, "sum", <<>>), Agg(<<"c">>, "sum", <<>>)>>,
     <<Agg(<<"t">>, "max", <<"c">>)>>}

SomeGroupBys ==
    {<<>>, <<(<<"c">>)>>, <<(<<"c", ";", "1">>), (<<"t">>)>>, <<(<<"t">>), (<<"c", ";", "1">>)>>}

TimeBucket(col, g) == [time_column |-> col, time_granularity |-> g]
SomeTimeBuckets == {TimeBucket(<<>>, NoneV), TimeBucket(<<"t">>, "day"), TimeBucket(<<"t">>, NoneV)}

DataAggRequests ==
    {[svc |-> "data", op |-> "aggregate",
      data_source_id |-> src.data_source_id, table_name |-> src.table_name,
      aggregations |-> aggs, group_by |-> g, filters |-> f,
      time_column |-> tb.time_column, time_granularity |-> tb.time_granularity,
      sort |-> srt, limit |-> 5] :
        src \in DataSources, aggs \in SomeAggregationLists, g \in SomeGroupBys,
        f \in FewFilterSets, tb \in SomeTimeBuckets, srt \in SomeSorts}

DataChartRequests ==
    {[svc |-> "data", op |-> "chart",
      data_source_id |-> src.data_source_id, table_name |-> src.table_name,
      x_column |-> x, y_columns |-> ys, y_aggregations |-> yaggs, filters |-> f,
      time_granularity |-> g, limit |-> 5] :
        src \in DataSources, x \in {<<"t">>, <<"t", ";">>},
        ys \in {<<(<<"c">>)>>, <<(<<"c">>), (<<"c", ";", "1">>)>>},
        yaggs \in {Absent, Some(<<"sum">>)}, f \in FewFilterSets,
        g \in {NoneV, "month"}}

\* limit None or 0 is 0.
DataExportRequests ==
    {[svc |-> "data", op |-> "export",
      data_source_id |-> src.data_source_id, table_name |-> src.table_name,
      format |-> fmt, columns |-> cols, filters |-> f, limit |-> lim] :
        src \in DataSources, fmt \in {"csv", "json", "parquet"},
        cols \in SomeColumnLists, f \in FewFilterSets, lim \in {0, 5}}

DataRequests ==
    DataQueryRequests \cup DataAggRequests \cup DataChartRequests \cup DataExportRequests

----------------------------------------------------------------------------
(* What the executor returns *)

TableRows == {[c |-> "v1"], [c |-> "v2"]}
ChartRows == {[x |-> "x1", y |-> "y1"], [x |-> "x2", y |-> "y2"]}
ColumnRows == {[name |-> "c", type |-> "String"]}

RowResults(pool) == {Failed} \cup {Returned(rs) : rs \in SeqsUpTo(pool, MaxRows)}
LookupResults ==
    {Failed, Returned(<<>>)} \cup {Returned(<<src>>) : src \in StoredSources}

\* The i-th row of the matched set in the order the row query sorts it.
StoredRow(i) == [c |-> i]

\* What the store answers to a paged row query: the rows the call's LIMIT and
\* OFFSET cut from the matched set as it is when the query runs.
PageOf(call) ==
    LET all == [i \in 1..store |-> StoredRow(i)]
        first == call.params[<<"offset">>] + 1
        last == call.params[<<"offset">>] + call.params[<<"limit">>]
    IN  IF first > Len(all) THEN <<>>
        ELSE SubSeq(all, first, IF last < Len(all) THEN last ELSE Len(all))
PageResults == {Failed, Returned(PageOf(calls[Len(calls)]))}

\* What the store answers to count(): one row, the size of the matched set as
\* it is when the query runs.
CountResults == {Failed, Returned(<<[total |-> store]>>)}

\* Index of the last call issued in a given role, and what it returned.
LastCall(role) ==
    CHOOSE i \in DOMAIN calls :
        calls[i].role = role /\ \A j \in DOMAIN calls : calls[j].role = role => j <= i
ResultOf(role) == results[LastCall(role)]
DataCalls == {i \in DOMAIN calls : calls[i].role = "data"}

----------------------------------------------------------------------------
(* DataService: the handlers, one step per suspension point *)

DataFirstCall(r, t) ==
    CASE r.op = "query" -> DataRowQuery(r, t)
      [] r.op = "aggregate" -> DataAggQuery(r, t)
      [] r.op = "chart" -> DataChartQuery(r, t, 0)
      [] r.op = "export" -> DataExportQuery(r, t)

\* A failed call answered with whatever the handler has so far.
FailPartial(res, e) ==
    /\ results' = Append(results, res)
    /\ out' = [kind |-> "response", partial |-> TRUE]
    /\ pc' = "done"

Fail(res, e) ==
    /\ results' = Append(results, res)
    /\ out' = ErrorOut(e)
    /\ pc' = "done"

\* _resolve_table_name when the lookup is abandoned for a fixed table.
ResolveNoSourceDefault(r) ==
    /\ table' = <<"t">>
    /\ calls' = <<DataFirstCall(r, <<"t">>)>>
    /\ pc' = "data"
    /\ UNCHANGED <<results, out>>

\* _resolve_table_name with neither a table name nor a data source id.
ResolveNoSource(r) ==
    /\ out' = ErrorOut("MissingSource")
    /\ pc' = "done"
    /\ UNCHANGED <<table, calls, results>>

\* A handler of DataService up to its first await: _resolve_table_name, and
\* with a table name in hand the translation and the first data query.
DataBegin(r) ==
    /\ pc = "idle"
    /\ req' = r
    /\ IF r.table_name # <<>>
       THEN /\ table' = r.table_name
            /\ calls' = <<DataFirstCall(r, r.table_name)>>
            /\ pc' = "data"
            /\ UNCHANGED <<results, out>>
       ELSE IF r.data_source_id # NoneV
       THEN /\ calls' = <<LookupQuery(r.data_source_id)>>
            /\ pc' = "lookup"
            /\ UNCHANGED <<table, results, out>>
       ELSE ResolveNoSource(r)
    /\ UNCHANGED <<filters, clause, store, db>>

\* _resolve_table_name after the lookup returned.
DataLookupReturn(res) ==
    /\ pc = "lookup"
    /\ IF ~res.ok THEN Fail(res, "ExecutorFailure") /\ UNCHANGED <<table, calls>>
       ELSE IF res.rows = <<>> THEN Fail(res, "MissingSource") /\ UNCHANGED <<table, calls>>
       ELSE /\ results' = Append(results, res)
            /\ table' = SourceTable(res.rows[1])
            /\ calls' = Append(calls, DataFirstCall(req, SourceTable(res.rows[1])))
            /\ pc' = "data"
            /\ UNCHANGED out
    /\ UNCHANGED <<req, filters, clause, store, db>>

\* query_data: the row query returned; the count query goes out.
DataQueryRows(res) ==
    /\ pc = "data" /\ req.svc = "data" /\ req.op = "query"
    /\ IF ~res.ok THEN Fail(res, "ExecutorFailure") /\ UNCHANGED calls
       ELSE /\ results' = Append(results, res)
            /\ calls' = Append(calls, DataCountQuery(req, table))
            /\ pc' = "count"
            /\ UNCHANGED out
    /\ UNCHANGED <<req, table, filters, clause, store, db>>

\* query_data: the count query returned; the column query goes out.
DataQueryCount(res) ==
    /\ pc = "count" /\ req.svc = "data"
    /\ IF ~res.ok THEN Fail(res, "ExecutorFailure") /\ UNCHANGED calls
       ELSE /\ results' = Append(results, res)
            /\ calls' = Append(calls, ColumnInfoQuery(table))
            /\ pc' = "columns"
            /\ UNCHANGED out
    /\ UNCHANGED <<req, table, filters, clause, store, db>>

\* count_result["total"] if count_result else 0
Total(res) == IF res.rows # <<>> THEN res.rows[1].total ELSE 0

\* query_data: the column query returned; the response.
DataQueryColumns(res) ==
    /\ pc = "columns" /\ req.svc = "data"
    /\ IF ~res.ok THEN Fail(res, "ExecutorFailure")
       ELSE /\ results' = Append(results, res)
            /\ out' = [kind |-> "response",
                        columns |-> res.rows,
                        data |-> ResultOf("data").rows,
                        total |-> Total(ResultOf("count")),
                        page |-> req.page,
                        page_size |-> req.page_size,
                        pages |-> Pages(Total(ResultOf("count")), req.page_size)]
            /\ pc' = "done"
    /\ UNCHANGED <<req, table, calls, filters, clause, store, db>>

\* aggregate_data: the aggregation query returned; the response.
DataAggReturn(res) ==
    /\ pc = "data" /\ req.svc = "data" /\ req.op = "aggregate"
    /\ IF ~res.ok THEN Fail(res, "ExecutorFailure")
       ELSE /\ results' = Append(results, res)
            /\ out' = [kind |-> "response",
                        columns |-> DataResultColumns(req),
                        data |-> res.rows,
                        total_rows |-> Len(res.rows)]
            /\ pc' = "done"
    /\ UNCHANGED <<req, table, calls, filters, clause, store, db>>

Point(row) == [x |-> row.x, y |-> row.y]

OptName(name) == [some |-> TRUE, name |-> name]
NoName == [some |-> FALSE, name |-> <<>>]

RECURSIVE SumLen(_)
SumLen(ss) == IF ss = <<>> THEN 0 ELSE Len(Head(ss).data) + SumLen(Tail(ss))

\* Series that are all named after the x column.
DataSeriesNamedByX(r, all) ==
    [i \in DOMAIN r.y_columns |->
        [name |-> r.x_column, data |-> Map(Point, all[i].rows)]]

\* get_chart_data: the series of the y-columns, from the results of their
\* queries (all) in y-column order.
DataSeries(r, all) ==
    [i \in DOMAIN r.y_columns |->
        [name |-> r.y_columns[i], data |-> Map(Point, all[i].rows)]]

\* A y-axis label taken from the first y-column however many there are.
DataYAxisLabelAlways(r) == OptName(r.y_columns[1])

\* request.y_columns[0] if len(request.y_columns) == 1 else None
DataYAxisLabel(r) ==
    IF Len(r.y_columns) = 1 THEN OptName(r.y_columns[1]) ELSE NoName

\* get_chart_data: the query of one y-column returned; the next one goes out,
\* or the response.
DataChartReturn(res) ==
    /\ pc = "data" /\ req.svc = "data" /\ req.op = "chart"
    /\ IF ~res.ok THEN Fail(res, "ExecutorFailure") /\ UNCHANGED calls
       ELSE LET n == Cardinality(DataCalls)
                all == SubSeq(Append(results, res), Len(calls) - n + 1, Len(calls))
                series == DataSeries(req, all)
            IN  /\ results' = Append(results, res)
                /\ IF n < Len(req.y_columns)
                   THEN /\ calls' = Append(calls, DataChartQuery(req, table, n))
                        /\ UNCHANGED <<pc, out>>
                   ELSE /\ out' = [kind |-> "response",
                                    chart_type |-> "line",
                                    series |-> series,
                                    x_axis_label |-> req.x_column,
                                    y_axis_label |-> DataYAxisLabel(req),
                                    total_points |-> SumLen(series)]
                        /\ pc' = "done"
                        /\ UNCHANGED calls
    /\ UNCHANGED <<req, table, filters, clause, store, db>>

StorageOutcomes == {"ok", "upload_fails", "url_fails"}

\* An export that asks for the URL before it uploads, and answers whether or
\* not the upload worked.
ExportTailPresignsFirst(res, enc, st) ==
    IF ~res.ok THEN Fail(res, "ExecutorFailure") /\ UNCHANGED calls
    ELSE /\ calls' = calls \o <<PresignCall, UploadCall(enc.content, enc.content_type)>>
         /\ results' = results \o <<res, Returned(<<>>),
                                      IF st = "ok" THEN Returned(<<>>) ELSE Failed>>
         /\ out' = [kind |-> "response",
                     file_ext |-> enc.ext,
                     file_size |-> Len(enc.content),
                     row_count |-> Len(res.rows)]
         /\ pc' = "done"

\* export_data from the return of the export query on: encode, upload, ask
\* for the URL, respond (the storage calls are synchronous).
ExportTail(res, enc, st) ==
    IF ~res.ok THEN Fail(res, "ExecutorFailure") /\ UNCHANGED calls
    ELSE IF st = "upload_fails"
    THEN /\ calls' = Append(calls, UploadCall(enc.content, enc.content_type))
         /\ results' = results \o <<res, Failed>>
         /\ out' = ErrorOut("StorageFailure")
         /\ pc' = "done"
    ELSE IF st = "url_fails"
    THEN /\ calls' = calls \o <<UploadCall(enc.content, enc.content_type), PresignCall>>
         /\ results' = results \o <<res, Returned(<<>>), Failed>>
         /\ out' = ErrorOut("StorageFailure")
         /\ pc' = "done"
    ELSE /\ calls' = calls \o <<UploadCall(enc.content, enc.content_type), PresignCall>>
         /\ results' = results \o <<res, Returned(<<>>), Returned(<<>>)>>
         /\ out' = [kind |-> "response",
                     file_ext |-> enc.ext,
                     file_size |-> Len(enc.content),
                     row_count |-> Len(res.rows)]
         /\ pc' = "done"

DataExportReturn(res, st) ==
    /\ pc = "data" /\ req.svc = "data" /\ req.op = "export"
    /\ ExportTail(res, DataEncode(req.format, res.rows), st)
    /\ UNCHANGED <<req, table, filters, clause, store, db>>

----------------------------------------------------------------------------
(* SopService: query assembly.  A column name is a one-atom sequence. *)

FactTable == <<Txt("sop_facts")>>

\* COLUMN_LABELS, keys in declaration order.
ColumnKeys ==
    <<"model", "priznak", "driver", "finkod_code", "finkod_name", "category_code",
      "category_name", "macroregion_code", "macroregion_name", "territory", "year",
      "month", "unit", "value">>

\* COLUMN_LABELS[c] (the Russian labels, transliterated).
ColumnLabel(c) ==
    CASE c = "model" -> "Model'"
      [] c = "priznak" -> "Priznak"
      [] c = "driver" -> "Drajver"
      [] c = "finkod_code" -> "Finkod Kod"
      [] c = "finkod_name" -> "Finkod kod_nazv"
      [] c = "category_code" -> "Kategoriya"
      [] c = "category_name" -> "Kategoriya nazvanie"
      [] c = "macroregion_code" -> "Makroregion kod"
      [] c = "macroregion_name" -> "Makroregion nazvanie"
      [] c = "territory" -> "Territoriya nazvanie"
      [] c = "year" -> "God"
      [] c = "month" -> "Mesyac"
      [] c = "unit" -> "EI"
      [] c = "value" -> "Prognoz"

\* COLUMN_LABELS.get(c, c)
LabelOf(c) == IF c \in Range(ColumnKeys) THEN ColumnLabel(c) ELSE c

AllowedColumns == Range(ColumnKeys) \cup {"id", "created_at", "updated_at"}

\* SopService._sanitize_column
SanitizeColumn(column) ==
    IF Len(column) = 1 /\ column[1] \in AllowedColumns
    THEN <<Quote, San(column), Quote>>
    ELSE <<Quote, San(<<"id">>), Quote>>

\* The IN filters of _build_where_clause in code order: the SopFilterParams
\* field, and the column it constrains.
InFilters ==
    <<[field |-> "years", column |-> "year"],
      [field |-> "months", column |-> "month"],
      [field |-> "priznaks", column |-> "priznak"],
      [field |-> "drivers", column |-> "driver"],
      [field |-> "finkod_codes", column |-> "finkod_code"],
      [field |-> "finkod_groups", column |-> "finkod_code"],
      [field |-> "category_codes", column |-> "category_code"],
      [field |-> "territories", column |-> "territory"],
      [field |-> "macroregion_codes", column |-> "macroregion_code"],
      [field |-> "units", column |-> "unit"]>>

\* f"startsWith(finkod_code, '{g}')"
GroupCondition(g) == <<Txt("startsWith(finkod_code, '"), RawValue(<<g>>), Txt("')")>>

\* One "if filters.<field>:" block of _build_where_clause.
InCondition(flt, values) ==
    IF flt.field = "finkod_groups"
    THEN <<Txt("(")>> \o Join(<<Txt(" OR ")>>, Map(GroupCondition, values)) \o <<Txt(")")>>
    ELSE <<Txt(flt.column), Txt(" IN "), Ph(<<flt.field>>)>>

SearchCondition ==
    <<Txt("(finkod_name ILIKE "), Ph(<<"search">>),
      Txt(" OR category_name ILIKE "), Ph(<<"search">>),
      Txt(" OR macroregion_name ILIKE "), Ph(<<"search">>),
      Txt(" OR territory ILIKE "), Ph(<<"search">>), Txt(")")>>

\* The blocks of _build_where_clause from the i-th on.
RECURSIVE WhereLoop(_, _, _, _)
WhereLoop(f, i, conditions, params) ==
    IF i > Len(InFilters)
    THEN IF f.search # NoneV
         THEN [conditions |-> Append(conditions, SearchCondition),
               params |-> (<<"search">> :> <<"%", f.search, "%">>) @@ params]
         ELSE [conditions |-> conditions, params |-> params]
    ELSE LET flt == InFilters[i]
             values == f.lists[flt.field]
         IN  IF Truthy(values)
             THEN WhereLoop(f, i + 1,
                            Append(conditions, InCondition(flt, values.items)),
                            IF flt.field = "finkod_groups" THEN params
                            ELSE (<<flt.field>> :> values.items) @@ params)
             ELSE WhereLoop(f, i + 1, conditions, params)

\* SopService._build_where_clause: (where clause, params).
BuildWhereClause(f) ==
    IF ~f.some THEN [text |-> <<>>, params |-> EmptyMap]
    ELSE LET r == WhereLoop(f, 1, <<>>, EmptyMap)
         IN  IF r.conditions = <<>> THEN [text |-> <<>>, params |-> EmptyMap]
             ELSE [text |-> <<Txt("WHERE ")>> \o Join(<<Txt(" AND ")>>, r.conditions),
                   params |-> r.params]

FixedColumn(c) == <<Quote, Txt(c), Quote>>

\* The SELECT list of query_data and export_data.
SopSelectColumns(columns) ==
    IF Truthy(columns)
    THEN Join(<<Txt(", ")>>, Map(SanitizeColumn, columns.items))
    ELSE Join(<<Txt(", ")>>, Map(FixedColumn, ColumnKeys))

\* str.lower() on the order strings the model draws.
Lower(s) ==
    CASE s = "DESC" -> "desc"
      [] s = "ASC" -> "asc"
      [] OTHER -> s

SopSortPart(s) ==
    SanitizeColumn(s.field)
        \o <<Txt(IF Lower(s.order) = "desc" THEN " DESC" ELSE " ASC")>>

SopOrderBy(sort) ==
    IF sort # <<>>
    THEN <<Txt("ORDER BY ")>> \o Join(<<Txt(", ")>>, Map(SopSortPart, sort))
    ELSE <<Txt("ORDER BY year DESC, month ASC")>>

Without(m, keys) == [k \in DOMAIN m \ keys |-> m[k]]

\* SopService.query_data, the paged row query.
SopRowQuery(r) ==
    LET w == BuildWhereClause(r.filters)
    IN  Call("fetch_all", "data",
             <<Txt("SELECT ")>> \o SopSelectColumns(r.columns)
                 \o <<Txt(" FROM ")>> \o FactTable \o w.text \o SopOrderBy(r.sort)
                 \o <<Txt(" LIMIT "), Ph(<<"limit">>), Txt(" OFFSET "), Ph(<<"offset">>)>>,
             (<<"limit">> :> r.page_size) @@ (<<"offset">> :> Offset(r)) @@ w.params)

\* SopService.query_data, the paired count query: the row query's params
\* without limit and offset.
SopCountQuery(r) ==
    LET w == BuildWhereClause(r.filters)
    IN  Call("fetch_one", "count",
             <<Txt("SELECT count() as total FROM ")>> \o FactTable \o w.text,
             Without(SopRowQuery(r).params, {<<"limit">>, <<"offset">>}))

\* The eight queries of get_filter_options: what each selects, and how it
\* groups and orders.
OptionQueries ==
    <<[role |-> "years", select |-> "SELECT DISTINCT year",
       tail |-> " ORDER BY year DESC"],
      [role |-> "territories",
       select |-> "SELECT territory as code, territory as name, count() as count",
       tail |-> " GROUP BY territory ORDER BY territory"],
      [role |-> "macroregions",
       select |-> "SELECT macroregion_code as code, macroregion_name as name, territory as parent_code, count() as count",
       tail |-> " GROUP BY macroregion_code, macroregion_name, territory ORDER BY territory, macroregion_name"],
      [role |-> "categories",
       select |-> "SELECT category_code as code, category_name as name, count() as count",
       tail |-> " GROUP BY category_code, category_name ORDER BY category_name"],
      [role |-> "finkod_codes",
       select |-> "SELECT finkod_code as code, finkod_code as name, count() as count",
       tail |-> " GROUP BY finkod_code ORDER BY finkod_code"],
      [role |-> "drivers",
       select |-> "SELECT driver as code, driver as name, count() as count",
       tail |-> " GROUP BY driver ORDER BY driver"],
      [role |-> "priznaks",
       select |-> "SELECT priznak as code, priznak as name, count() as count",
       tail |-> " GROUP BY priznak ORDER BY priznak"],
      [role |-> "units",
       select |-> "SELECT unit as code, unit as name, count() as count",
       tail |-> " GROUP BY unit ORDER BY unit"]>>

\* SopService.get_filter_options, its i-th query (i from 1).
SopOptionQuery(r, i) ==
    LET w == BuildWhereClause(r.filters)
    IN  Call("fetch_all", OptionQueries[i].role,
             <<Txt(OptionQueries[i].select), Txt(" FROM ")>> \o FactTable \o w.text
                 \o <<Txt(OptionQueries[i].tail)>>,
             w.params)

QuarterColumn ==
    <<Txt("toQuarter(toDate(concat(toString(year), '-', toString(month), '-01'))) as quarter")>>

\* SopService.aggregate_data: one aggregation expression, none for a function
\* name outside sum, avg, count, min, max.
SopAggExpression(agg, value_col) ==
    CASE agg \in {"sum", "avg", "min", "max"} ->
            <<(<<Txt(agg), Txt("(")>> \o value_col \o <<Txt(") as "), Txt(agg), Txt("_value")>>)>>
      [] agg = "count" -> <<(<<Txt("count() as count_value")>>)>>
      [] OTHER -> <<>>

RECURSIVE SopAggExpressions(_, _)
SopAggExpressions(aggs, value_col) ==
    IF aggs = <<>> THEN <<>>
    ELSE SopAggExpression(Head(aggs), value_col) \o SopAggExpressions(Tail(aggs), value_col)

RawColumn(c) == <<RawIdent(c)>>

\* SopService.aggregate_data: select_parts
SopSelectParts(r) ==
    Map(SanitizeColumn, r.group_by)
    \o (IF r.time_granularity = "quarter" THEN <<QuarterColumn>> ELSE <<>>)
    \o SopAggExpressions(r.aggregations, SanitizeColumn(r.value_column))

\* SopService.aggregate_data, the aggregation query.
SopAggQuery(r) ==
    LET w == BuildWhereClause(r.filters)
        group_by_clause ==
            IF r.group_by # <<>>
            THEN <<Txt("GROUP BY ")>> \o Join(<<Txt(", ")>>, Map(RawColumn, r.group_by))
            ELSE <<>>
    IN  Call("fetch_all", "data",
             <<Txt("SELECT ")>> \o Join(<<Txt(", ")>>, SopSelectParts(r))
                 \o <<Txt(" FROM ")>> \o FactTable \o w.text \o group_by_clause
                 \o <<Txt(" ORDER BY ")>>
                 \o (IF r.group_by # <<>> THEN RawColumn(r.group_by[1]) ELSE <<Txt("1")>>)
                 \o <<Txt(" LIMIT "), Ph(<<"limit">>)>>,
             (<<"limit">> :> r.limit) @@ w.params)

ValueAlias(agg) == <<agg, "_value">>

\* SopService.aggregate_data: columns
SopResultColumns(r) == r.group_by \o Map(ValueAlias, r.aggregations)

\* agg_func of get_chart_data
ChartAggregation(aggregation) ==
    IF aggregation \in {"sum", "avg", "count", "min", "max"} THEN aggregation ELSE "sum"

\* SopService.get_chart_data, the chart query.
SopChartQuery(r) ==
    LET w == BuildWhereClause(r.filters)
        x_col == SanitizeColumn(r.x_axis)
        y_col == SanitizeColumn(r.y_axis)
        agg == <<Txt(ChartAggregation(r.aggregation)), Txt("(")>> \o y_col \o <<Txt(") as y")>>
    IN  Call("fetch_all", "data",
             IF r.series_by # <<>>
             THEN <<Txt("SELECT ")>> \o x_col \o <<Txt(" as x, ")>>
                      \o SanitizeColumn(r.series_by) \o <<Txt(" as series, ")>> \o agg
                      \o <<Txt(" FROM ")>> \o FactTable \o w.text
                      \o <<Txt(" GROUP BY "), RawIdent(r.x_axis), Txt(", "), RawIdent(r.series_by),
                            Txt(" ORDER BY "), RawIdent(r.x_axis), Txt(", "), RawIdent(r.series_by),
                            Txt(" LIMIT "), Ph(<<"limit">>)>>
             ELSE <<Txt("SELECT ")>> \o x_col \o <<Txt(" as x, ")>> \o agg
                      \o <<Txt(" FROM ")>> \o FactTable \o w.text
                      \o <<Txt(" GROUP BY "), RawIdent(r.x_axis),
                            Txt(" ORDER BY "), RawIdent(r.x_axis),
                            Txt(" LIMIT "), Ph(<<"limit">>)>>,
             (<<"limit">> :> r.limit) @@ w.params)

\* SopService.export_data, the export query.
SopExportQuery(r) ==
    LET w == BuildWhereClause(r.filters)
    IN  Call("fetch_all", "data",
             <<Txt("SELECT ")>> \o SopSelectColumns(r.columns)
                 \o <<Txt(" FROM ")>> \o FactTable \o w.text
                 \o <<Txt(" ORDER BY year DESC, month ASC ")>> \o LimitSql(r.limit),
             w.params)

\* SopService._generate_csv: a header line of display labels, then the rows;
\* nothing at all for no rows.
SopGenerateCsv(data) ==
    IF data = <<>> THEN <<>>
    ELSE <<[header |-> {LabelOf(f) : f \in DOMAIN data[1]}]>> \o data

SopEncode(format, data) ==
    IF format = "json"
    THEN [content |-> JsonDumps(data), content_type |-> "application/json", ext |-> ".json"]
    ELSE [content |-> SopGenerateCsv(data), content_type |-> "text/csv", ext |-> ".csv"]

----------------------------------------------------------------------------
(* SopService: requests *)

InFilterFields == {InFilters[i].field : i \in DOMAIN InFilters}
AllAbsent == [f \in InFilterFields |-> Absent]

NoSopFilters == [some |-> FALSE, lists |-> AllAbsent, search |-> NoneV]
SopFilter(lists, search) == [some |-> TRUE, lists |-> lists, search |-> search]

SomeSopFilters ==
    {NoSopFilters,
     SopFilter(AllAbsent, NoneV),
     SopFilter([AllAbsent EXCEPT !["years"] = Some(<<2024>>), !["months"] = Some(<<>>)], NoneV),
     SopFilter([AllAbsent EXCEPT !["finkod_groups"] = Some(<<"A", "B') OR ('1'='1">>)], NoneV),
     SopFilter([AllAbsent EXCEPT !["territories"] = Some(<<"North", "South">>),
                                 !["units"] = Some(<<"sht">>)], "abc")}

FewSopFilters ==
    {NoSopFilters,
     SopFilter([AllAbsent EXCEPT !["years"] = Some(<<2024>>), !["months"] = Some(<<>>)], NoneV),
     SopFilter([AllAbsent EXCEPT !["finkod_groups"] = Some(<<"A", "B') OR ('1'='1">>)], "abc")}

SomeSopColumnLists ==
    {Absent, Some(<<(<<"year">>)>>), Some(<<(<<"bogus">>), (<<"value">>)>>)}

SomeSopSorts ==
    {<<>>, <<Sort(<<"year">>, "DESC")>>, <<Sort(<<"bogus; x">>, "up"), Sort(<<"month">>, "asc")>>}

SopQueryRequests ==
    {[svc |-> "sop", op |-> "query", filters |-> f, sort |-> srt,
      page |-> pg.page, page_size |-> pg.page_size, columns |-> cols] :
        f \in SomeSopFilters, srt \in SomeSopSorts, pg \in Paging,
        cols \in SomeSopColumnLists}

SopOptionRequests ==
    {[svc |-> "sop", op |-> "options", filters |-> f] : f \in SomeSopFilters}

SomeSopGroupBys ==
    {<<>>, <<(<<"year">>)>>, <<(<<"territory">>), (<<"year">>)>>,
     <<(<<"year">>), (<<"territory">>)>>, <<(<<"bogus; x">>)>>}

SomeSopAggregations ==
    {<<"sum">>, <<"sum", "avg">>, <<"avg", "sum">>, <<"median">>, <<"sum", "sum">>}

SopAggRequests ==
    {[svc |-> "sop", op |-> "aggregate", filters |-> f, group_by |-> g,
      aggregations |-> aggs, value_column |-> vc, time_granularity |-> tg,
      limit |-> 5] :
        f \in FewSopFilters, g \in SomeSopGroupBys, aggs \in SomeSopAggregations,
        vc \in {<<"value">>, <<"bogus">>}, tg \in {NoneV, "quarter", "year"}}

\* series_by None or "" is <<>>.
SopChartRequests ==
    {[svc |-> "sop", op |-> "chart", filters |-> f, chart_type |-> "line",
      x_axis |-> x, y_axis |-> y, series_by |-> sb, aggregation |-> agg,
      limit |-> 5] :
        f \in FewSopFilters, x \in {<<"month">>, <<"bogus; x">>},
        y \in {<<"value">>, <<"bogus">>},
        sb \in {<<>>, <<"territory">>, <<"bogus; x">>}, agg \in {"sum", "median"}}

\* minio: whether the service was built with a storage client.
SopExportRequests ==
    {[svc |-> "sop", op |-> "export", minio |-> m, filters |-> f, columns |-> cols,
      format |-> fmt, limit |-> lim] :
        m \in BOOLEAN, f \in FewSopFilters, cols \in SomeSopColumnLists,
        fmt \in {"xlsx", "csv", "json"}, lim \in {0, 5}}

SopRequests ==
    SopQueryRequests \cup SopOptionRequests \cup SopAggRequests
    \cup SopChartRequests \cup SopExportRequests

SopRows == {[year |-> 2024, value |-> "v1"], [year |-> 2025, value |-> "v2"]}
\* Rows of a chart query with a series column; the series values here are
\* numbers (a month, a year), which the handler turns into names with str().
SeriesRows ==
    {[x |-> "x1", series |-> 1, y |-> "y1"],
     [x |-> "x1", series |-> 2, y |-> "y2"],
     [x |-> "x2", series |-> 1, y |-> "y3"]}
OptionResults(i) ==
    {Failed, Returned(<<>>),
     Returned(<<IF i = 1 THEN [year |-> 2024]
                ELSE IF i = 3 THEN [code |-> "a", name |-> "A", parent_code |-> "p", count |-> 1]
                ELSE [code |-> "a", name |-> "A", count |-> 1]>>)}

----------------------------------------------------------------------------
(* SopService: the handlers, one step per suspension point *)

SopFirstCall(r) ==
    CASE r.op = "query" -> SopRowQuery(r)
      [] r.op = "options" -> SopOptionQuery(r, 1)
      [] r.op = "aggregate" -> SopAggQuery(r)
      [] r.op = "chart" -> SopChartQuery(r)
      [] r.op = "export" -> SopExportQuery(r)

\* The storage-client check of export_data placed after the export query.
SopExportNoClientLate(r) ==
    /\ calls' = <<SopFirstCall(r)>>
    /\ out' = ErrorOut("NoStorageClient")
    /\ pc' = "done"

\* export_data: "if not self.minio: raise", its first statement.
SopExportNoClient(r) ==
    /\ out' = ErrorOut("NoStorageClient")
    /\ pc' = "done"
    /\ UNCHANGED calls

\* A handler of SopService up to its first await.
SopBegin(r) ==
    /\ pc = "idle"
    /\ req' = r
    /\ IF r.op = "export" /\ ~r.minio
       THEN SopExportNoClient(r)
       ELSE /\ calls' = <<SopFirstCall(r)>>
            /\ pc' = IF r.op = "options" THEN "options" ELSE "data"
            /\ UNCHANGED out
    /\ UNCHANGED <<table, results, filters, clause, store, db>>

\* query_data: the row query returned; the count query goes out.
SopQueryRows(res) ==
    /\ pc = "data" /\ req.svc = "sop" /\ req.op = "query"
    /\ IF ~res.ok THEN Fail(res, "ExecutorFailure") /\ UNCHANGED calls
       ELSE /\ results' = Append(results, res)
            /\ calls' = Append(calls, SopCountQuery(req))
            /\ pc' = "count"
            /\ UNCHANGED out
    /\ UNCHANGED <<req, table, filters, clause, store, db>>

ColumnDef(col) == [name |-> col, label |-> LabelOf(col[1])]
KeyName(c) == <<c>>

\* pages of SopDataResponse
SopPages(total, page_size) ==
    IF page_size > 0 THEN (total + page_size - 1) \div page_size ELSE 0

\* query_data: the count query returned; the response.
SopQueryCount(res) ==
    /\ pc = "count" /\ req.svc = "sop"
    /\ IF ~res.ok THEN Fail(res, "ExecutorFailure")
       ELSE /\ results' = Append(results, res)
            /\ out' = [kind |-> "response",
                        columns |-> Map(ColumnDef,
                                        IF Truthy(req.columns) THEN req.columns.items
                                        ELSE Map(KeyName, ColumnKeys)),
                        data |-> ResultOf("data").rows,
                        total |-> Total(res),
                        page |-> req.page,
                        page_size |-> req.page_size,
                        pages |-> SopPages(Total(res), req.page_size)]
            /\ pc' = "done"
    /\ UNCHANGED <<req, table, calls, filters, clause, store, db>>

\* get_filter_options: one of its queries returned; the next one goes out, or
\* the response.
SopOptionsReturn(res) ==
    /\ pc = "options"
    /\ IF ~res.ok THEN Fail(res, "ExecutorFailure") /\ UNCHANGED calls
       ELSE /\ results' = Append(results, res)
            /\ IF Len(calls) < Len(OptionQueries)
               THEN /\ calls' = Append(calls, SopOptionQuery(req, Len(calls) + 1))
                    /\ UNCHANGED <<pc, out>>
               ELSE /\ out' = [kind |-> "response",
                                options |-> [i \in DOMAIN OptionQueries |->
                                               Append(results, res)[i].rows]]
                    /\ pc' = "done"
                    /\ UNCHANGED calls
    /\ UNCHANGED <<req, table, filters, clause, store, db>>

\* aggregate_data: the aggregation query returned; the response.
SopAggReturn(res) ==
    /\ pc = "data" /\ req.svc = "sop" /\ req.op = "aggregate"
    /\ IF ~res.ok THEN Fail(res, "ExecutorFailure")
       ELSE /\ results' = Append(results, res)
            /\ out' = [kind |-> "response",
                        columns |-> SopResultColumns(req),
                        data |-> res.rows,
                        total_rows |-> Len(res.rows)]
            /\ pc' = "done"
    /\ UNCHANGED <<req, table, calls, filters, clause, store, db>>

\* str(row["series"]) for the series values the model draws.
Str(v) == IntStr(v)

\* The keys of series_data in insertion order: each str(row["series"]) at its
\* first occurrence.
RECURSIVE SeriesNames(_, _)
SeriesNames(data, seen) ==
    IF data = <<>> THEN seen
    ELSE SeriesNames(Tail(data),
                     IF Str(Head(data).series) \in Range(seen) THEN seen
                     ELSE Append(seen, Str(Head(data).series)))

\* A series that takes the points of every row, whatever its series value.
SeriesOfAllRows(data, name) ==
    [name |-> name, data |-> Map(Point, data)]

\* A series that lists the points of its rows last row first.
SeriesOfNewestFirst(data, name) ==
    LET points == Map(Point, SelectSeq(data, LAMBDA row : Str(row.series) = name))
    IN  [name |-> name,
         data |-> [j \in DOMAIN points |-> points[Len(points) + 1 - j]]]

\* series_data[series_name]: the points of the rows whose str(row["series"])
\* is the name, in row order.
SeriesOf(data, name) ==
    [name |-> name,
     data |-> Map(Point, SelectSeq(data, LAMBDA row : Str(row.series) = name))]

\* get_chart_data: the series of the response.
SopSeries(r, data) ==
    IF r.series_by # <<>>
    THEN LET names == SeriesNames(data, <<>>)
         IN  [i \in DOMAIN names |-> SeriesOf(data, names[i])]
    ELSE <<[name |-> LabelOf(r.y_axis[1]), data |-> Map(Point, data)]>>

\* get_chart_data: the chart query returned; the response.
SopChartReturn(res) ==
    /\ pc = "data" /\ req.svc = "sop" /\ req.op = "chart"
    /\ IF ~res.ok THEN Fail(res, "ExecutorFailure")
       ELSE /\ results' = Append(results, res)
            /\ out' = [kind |-> "response",
                        chart_type |-> req.chart_type,
                        x_axis_label |-> LabelOf(req.x_axis[1]),
                        y_axis_label |-> OptName(LabelOf(req.y_axis[1])),
                        series |-> SopSeries(req, res.rows),
                        total_points |-> SumLen(SopSeries(req, res.rows))]
            /\ pc' = "done"
    /\ UNCHANGED <<req, table, calls, filters, clause, store, db>>

SopExportReturn(res, st) ==
    /\ pc = "data" /\ req.svc = "sop" /\ req.op = "export"
    /\ ExportTail(res, SopEncode(req.format, res.rows), st)
    /\ UNCHANGED <<req, table, filters, clause, store, db>>

\* The response or the error went to the caller; the next request may come.
Reset ==
    /\ pc = "done"
    /\ pc' = "idle"
    /\ req' = NoReq
    /\ table' = <<>>
    /\ calls' = <<>>
    /\ results' = <<>>
    /\ out' = NoOut
    /\ UNCHANGED <<filters, clause, store, db>>

Init ==
    /\ EngineIdle
    /\ store \in 0..MaxTotal
    /\ db = Connected
    /\ filters = NoFilters
    /\ clause = NoClause

\* The steps of the two services, each with what the caller or the executor
\* hands it.
DataRequest == pc = "idle" /\ \E r \in DataRequests : DataBegin(r)
DataLookup == pc = "lookup" /\ \E res \in LookupResults : DataLookupReturn(res)
DataRows ==
    pc = "data" /\ req.op = "query" /\ \E res \in PageResults : DataQueryRows(res)
DataCount == pc = "count" /\ \E res \in CountResults : DataQueryCount(res)
DataColumns == pc = "columns" /\ \E res \in RowResults(ColumnRows) : DataQueryColumns(res)
DataAggregate == pc = "data" /\ \E res \in RowResults(TableRows) : DataAggReturn(res)
DataChart == pc = "data" /\ \E res \in RowResults(ChartRows) : DataChartReturn(res)
DataExport ==
    pc = "data" /\ \E res \in RowResults(TableRows), st \in StorageOutcomes :
                      DataExportReturn(res, st)
SopRequest == pc = "idle" /\ \E r \in SopRequests : SopBegin(r)
SopRowsStep ==
    pc = "data" /\ req.op = "query" /\ \E res \in PageResults : SopQueryRows(res)
SopCount == pc = "count" /\ \E res \in CountResults : SopQueryCount(res)
\* Another request or a loader adds or removes rows of the queried table.
StoreWrite ==
    /\ \E n \in 0..MaxTotal : n # store /\ store' = n
    /\ UNCHANGED <<pc, req, table, calls, results, out, filters, clause, db>>
SopOptions == pc = "options" /\ \E res \in OptionResults(Len(calls)) : SopOptionsReturn(res)
SopAggregate == pc = "data" /\ \E res \in RowResults(SopRows) : SopAggReturn(res)
SopChart ==
    /\ pc = "data" /\ req.svc = "sop" /\ req.op = "chart"
    /\ \E res \in RowResults(IF req.series_by # <<>> THEN SeriesRows ELSE ChartRows) :
          SopChartReturn(res)
SopExport ==
    pc = "data" /\ \E res \in RowResults(SopRows), st \in StorageOutcomes :
                      SopExportReturn(res, st)

Next ==
    \/ DataRequest
    \/ DataLookup
    \/ DataRows
    \/ DataCount
    \/ DataColumns
    \/ DataAggregate
    \/ DataChart
    \/ DataExport
    \/ SopRequest
    \/ SopRowsStep
    \/ SopCount
    \/ SopOptions
    \/ SopAggregate
    \/ SopChart
    \/ SopExport
    \/ StoreWrite
    \/ Reset

Spec == Init /\ [][Next]_vars

----------------------------------------------------------------------------
(* Reading a predicate text *)

NumTok(text, tok) == Cardinality({i \in DOMAIN text : text[i] = tok})
NumKind(text, kind) == Cardinality({i \in DOMAIN text : text[i].k = kind})
PhNames(text) == {text[i].v : i \in {j \in DOMAIN text : text[j].k = "ph"}}

\* Every clause names its field once, so the clauses of a predicate are as
\* many as its identifiers.
NumClauses(text) == NumKind(text, "san")

\* The " AND " / " OR " tokens that join clauses: those of the text, less the
\* AND inside each BETWEEN ... AND ... clause.
NumJoins(text, logic) ==
    NumTok(text, Txt(logic))
    - (IF logic = " AND " THEN NumTok(text, Txt(" BETWEEN ")) ELSE 0)

ValuesNeeded(c) ==
    CASE c.operator = "between" -> 2
      [] c.operator \in {"is_null", "is_not_null"} -> 0
      [] OTHER -> 1

RECURSIVE TotalValuesNeeded(_)
TotalValuesNeeded(cs) ==
    IF cs = <<>> THEN 0 ELSE ValuesNeeded(Head(cs)) + TotalValuesNeeded(Tail(cs))

BetweenShort(c) ==
    c.operator = "between" /\ ~(c.values.some /\ Len(c.values.items) >= 2)

\* FilterCondition's invariant and FilterSet's logic: BETWEEN has its two
\* values, the logic is AND or OR.
WellFormed(f) ==
    /\ f.some
    /\ \A i \in DOMAIN f.conditions : ~BetweenShort(f.conditions[i])
    /\ Upper(f.logic) \in {"AND", "OR"}

----------------------------------------------------------------------------
(* Claims about the filter translator *)

\* C4: for a well-formed FilterParams with N conditions the predicate has
\* exactly N clauses joined by the declared logic operator, and the parameter
\* map has exactly one entry per clause that needs a value (two for BETWEEN,
\* none for IS_NULL / IS_NOT_NULL), each entry bound by a placeholder.
ThmC4_ClauseAndParamCount ==
    (clause.done /\ WellFormed(filters)) =>
        LET N == Len(filters.conditions)
            declared == IF Upper(filters.logic) = "AND" THEN " AND " ELSE " OR "
            other == IF Upper(filters.logic) = "AND" THEN " OR " ELSE " AND "
        IN  /\ NumClauses(clause.text) = N
            /\ N >= 1 => /\ NumJoins(clause.text, declared) = N - 1
                          /\ NumJoins(clause.text, other) = 0
                          /\ Head(clause.text) = Txt("(")
                          /\ clause.text[Len(clause.text)] = Txt(")")
            /\ Cardinality(DOMAIN clause.params) = TotalValuesNeeded(filters.conditions)
            /\ DOMAIN clause.params = PhNames(clause.text)

WitC4_ThreeShapes ==
    /\ clause.done
    /\ WellFormed(filters)
    /\ Len(filters.conditions) = 2
    /\ filters.conditions[1].operator = "between"
    /\ filters.conditions[2].operator = "is_null"
    /\ filters.logic = "OR"

\* C6: a BETWEEN condition whose values are absent or fewer than two makes
\* translation fail with InvalidFilter; it is never skipped.
CexC6_ShortBetweenFails ==
    (clause.done /\ filters.some
        /\ \E i \in DOMAIN filters.conditions : BetweenShort(filters.conditions[i]))
    => clause.error = "InvalidFilter"

----------------------------------------------------------------------------
(* Reading requests and issued calls *)

Issued(role) == {i \in DOMAIN calls : calls[i].role = role}
QueryCalls == {i \in DOMAIN calls : calls[i].op \in {"fetch_all", "fetch_one"}}

\* The WHERE predicate of a query text: from its WHERE token up to the
\* ORDER BY or LIMIT that follows, or to the end.
EndOfWhere == {Txt("ORDER BY "), Txt("ORDER BY year DESC, month ASC"), Txt(" LIMIT ")}
WherePart(text) ==
    LET starts == {i \in DOMAIN text : text[i] = Txt("WHERE ")}
    IN  IF starts = {} THEN <<>>
        ELSE LET b == CHOOSE i \in starts : \A j \in starts : i <= j
                 ends == {i \in DOMAIN text : i > b /\ text[i] \in EndOfWhere}
                 e == IF ends = {} THEN Len(text) + 1
                      ELSE CHOOSE i \in ends : \A j \in ends : i <= j
             IN  SubSeq(text, b, e - 1)

FilterFieldsOf(f) == {f.conditions[i].field : i \in DOMAIN f.conditions}
SortFieldsOf(sort) == {sort[i].field : i \in DOMAIN sort}

\* The identifiers a request supplies.
RequestIdentifiers(r) ==
    CASE r.svc = "data" /\ r.op = "query" ->
            {r.table_name} \cup Range(r.columns.items) \cup FilterFieldsOf(r.filters)
            \cup SortFieldsOf(r.sort)
      [] r.svc = "data" /\ r.op = "aggregate" ->
            {r.table_name} \cup Range(r.group_by) \cup FilterFieldsOf(r.filters)
            \cup SortFieldsOf(r.sort)
            \cup {r.aggregations[i].column : i \in DOMAIN r.aggregations}
            \cup {r.aggregations[i].alias : i \in DOMAIN r.aggregations}
            \cup (IF HasTimeBucket(r) THEN {r.time_column} ELSE {})
      [] r.svc = "data" /\ r.op = "chart" ->
            {r.table_name, r.x_column} \cup Range(r.y_columns) \cup FilterFieldsOf(r.filters)
      [] r.svc = "data" /\ r.op = "export" ->
            {r.table_name} \cup Range(r.columns.items) \cup FilterFieldsOf(r.filters)
      [] r.svc = "sop" /\ r.op = "query" ->
            Range(r.columns.items) \cup SortFieldsOf(r.sort)
      [] r.svc = "sop" /\ r.op = "aggregate" -> Range(r.group_by) \cup {r.value_column}
      [] r.svc = "sop" /\ r.op = "chart" -> {r.x_axis, r.y_axis, r.series_by}
      [] r.svc = "sop" /\ r.op = "export" -> Range(r.columns.items)
      [] OTHER -> {}

\* The characters, and the column names, of the model that hold a character
\* outside the allowed class.
OutsideClass == {";", " ", "(", ")", "bogus; x"}
HasOutsideChar(name) == \E i \in DOMAIN name : name[i] \in OutsideClass

TranslationErrors ==
    {"InvalidIdentifier", "InvalidFilter", "MissingSource", "AliasCollision",
     "NoStorageClient"}

----------------------------------------------------------------------------
(* Claims about the two services *)

\* C1: no caller-supplied value is ever inlined into query text: every filter
\* value, search string and limit reaches the executor through the parameter
\* map only.
CexC1_NoValueInText ==
    \A i \in QueryCalls : NumKind(calls[i].text, "rawvalue") = 0

\* C2: every caller-supplied identifier in an assembled query text has passed
\* through an identifier sanitizer; no raw caller string is interpolated.
CexC2_NoRawIdentifierInText ==
    \A i \in QueryCalls : NumKind(calls[i].text, "rawident") = 0

\* C3: an identifier with a character outside the allowed class makes
\* translation fail with InvalidIdentifier, and no query is assembled or sent.
CexC3_BadIdentifierFails ==
    (pc # "idle" /\ \E name \in RequestIdentifiers(req) : HasOutsideChar(name)) =>
        /\ \A i \in DOMAIN calls : calls[i].role = "lookup"
        /\ pc = "done" =>
              out.kind = "error"
              /\ out.error \in {"InvalidIdentifier", "MissingSource", "ExecutorFailure"}

\* C5: in query_data of both services the row query and its count query carry
\* the same WHERE predicate text, and the count query's parameter map is the
\* row query's without exactly limit and offset.
ThmC5_CountMatchesRows ==
    (req.op = "query" /\ Issued("count") # {}) =>
        LET row == calls[LastCall("data")]
            count == calls[LastCall("count")]
        IN  /\ WherePart(count.text) = WherePart(row.text)
            /\ {<<"limit">>, <<"offset">>} \subseteq DOMAIN row.params
            /\ DOMAIN count.params = DOMAIN row.params \ {<<"limit">>, <<"offset">>}
            /\ \A k \in DOMAIN count.params : count.params[k] = row.params[k]

WitC5_FilteredPage ==
    /\ req.op = "query" /\ req.svc = "data" /\ Issued("count") # {}
    /\ Len(WherePart(calls[LastCall("data")].text)) > 1
    /\ Cardinality(DOMAIN calls[LastCall("count")].params) = 3

\* C7 as stated: a request that ends in a translation-time error (invalid
\* identifier, invalid filter, missing source, alias collision, missing storage
\* client) has issued no executor or storage call.
CexC7_NoCallBeforeTranslationError ==
    (out.kind = "error" /\ out.error \in TranslationErrors) => calls = <<>>

\* C7 amended: a request that ends in a translation-time error has issued no
\* data query and no storage call; the one call that can precede the error is
\* the data_sources lookup of _resolve_table_name, which returned no row and
\* is followed by the missing-source error.
ThmC7_OnlyLookupBeforeTranslationError ==
    (out.kind = "error" /\ out.error \in TranslationErrors) =>
        \/ calls = <<>>
        \/ /\ out.error = "MissingSource"
           /\ Len(calls) = 1
           /\ calls[1] = LookupQuery(req.data_source_id)
           /\ results = <<Returned(<<>>)>>

WitC7_MissingAfterLookup ==
    /\ out = ErrorOut("MissingSource")
    /\ Len(calls) = 1

\* C8: a DataService request with neither a table name nor a data source id
\* that resolves to a stored data source fails as a whole with the
\* missing-source error, and no data query is run for it.
ThmC8_MissingSourceFails ==
    (req.svc = "data" /\ req.table_name = <<>>) =>
        /\ pc = "lookup" => Len(calls) = 1 /\ calls[1].role = "lookup"
        /\ (req.data_source_id = NoneV \/ (results # <<>> /\ results[1] = Returned(<<>>))) =>
              /\ pc = "done"
              /\ out = ErrorOut("MissingSource")
              /\ \A i \in DOMAIN calls : calls[i].role = "lookup"

WitC8_NoTableNoSource ==
    /\ req.svc = "data" /\ req.op = "aggregate"
    /\ req.table_name = <<>> /\ req.data_source_id = NoneV
    /\ pc = "done"

\* C9: the aggregation response's column list is the group keys in request
\* order (the time bucket first when there is one), then the aggregation
\* aliases in request order.
ThmC9_ColumnOrder ==
    (req.op = "aggregate" /\ out.kind = "response") =>
        LET cols == out.columns
            tb == IF req.svc = "data" /\ HasTimeBucket(req) THEN 1 ELSE 0
            g == Len(req.group_by)
        IN  /\ Len(cols) = tb + g + Len(req.aggregations)
            /\ tb = 1 => cols[1] = <<"time_bucket">>
            /\ \A i \in 1..g : cols[tb + i] = req.group_by[i]
            /\ \A j \in DOMAIN req.aggregations :
                  cols[tb + g + j] =
                      IF req.svc = "data"
                      THEN (IF req.aggregations[j].alias # <<>>
                            THEN req.aggregations[j].alias
                            ELSE <<req.aggregations[j].function, "_">>
                                     \o req.aggregations[j].column)
                      ELSE <<req.aggregations[j], "_value">>

WitC9_TwoKeysTwoAliases ==
    /\ req.svc = "data" /\ req.op = "aggregate" /\ out.kind = "response"
    /\ Len(req.group_by) = 2 /\ req.group_by[1] # req.group_by[2]
    /\ Len(req.aggregations) = 2
    /\ req.aggregations[1].function # req.aggregations[2].function
    /\ HasTimeBucket(req)

AliasCollides(r) ==
    LET keys == Range(r.group_by) \cup (IF HasTimeBucket(r) THEN {<<"time_bucket">>} ELSE {})
    IN  \/ \E i, j \in DOMAIN r.aggregations :
              i # j /\ Alias(r.aggregations[i]) = Alias(r.aggregations[j])
        \/ \E i \in DOMAIN r.aggregations : Alias(r.aggregations[i]) \in keys

\* C10: aggregation aliases are unique within a request: when two aggregations
\* resolve to the same alias, or an alias equals a group key, translation
\* fails with an alias-collision error and no query is emitted.
CexC10_AliasCollisionFails ==
    (req.svc = "data" /\ req.op = "aggregate" /\ AliasCollides(req)
        /\ pc \notin {"idle", "lookup"}) =>
        /\ \A i \in DOMAIN calls : calls[i].role = "lookup"
        /\ pc = "done" =>
              out.kind = "error"
              /\ out.error \in {"AliasCollision", "MissingSource", "ExecutorFailure"}

----------------------------------------------------------------------------
(* Claims about grouping, ordering, charts and exports *)

\* The grouping and sort fields a request names.
GroupSortFields(r) ==
    CASE r.op = "query" -> SortFieldsOf(r.sort)
      [] r.svc = "data" /\ r.op = "aggregate" -> Range(r.group_by) \cup SortFieldsOf(r.sort)
      [] r.svc = "sop" /\ r.op = "aggregate" -> Range(r.group_by)
      [] OTHER -> {}

\* A field the service's sanitizer does not pass unchanged.
FailsSanitization(r, field) ==
    IF r.svc = "sop" THEN field[1] \notin AllowedColumns ELSE HasOutsideChar(field)

\* C11: a requested grouping or sort field outside the allow-list, or one that
\* fails sanitization, makes the request fail with InvalidField; the field is
\* never dropped and never replaced by another column.
CexC11_BadGroupOrSortFieldFails ==
    (pc # "idle" /\ \E field \in GroupSortFields(req) : FailsSanitization(req, field)) =>
        /\ \A i \in DOMAIN calls : calls[i].role = "lookup"
        /\ pc = "done" =>
              out.kind = "error"
              /\ out.error \in {"InvalidField", "MissingSource", "ExecutorFailure"}

\* The rows the chart query of a SopService chart request returned.
ChartRowsReturned == results[Len(results)].rows

\* C12: a chart response for a request with series_by has exactly one series
\* per distinct discriminator value in the returned rows: the names are
\* pairwise different, they are the distinct values (as str() writes them),
\* and each series holds exactly the {x, y} points of the rows with its value.
ThmC12_OneSeriesPerValue ==
    (req.svc = "sop" /\ req.op = "chart" /\ req.series_by # <<>>
        /\ out.kind = "response") =>
        LET rows == ChartRowsReturned
            values == {rows[k].series : k \in DOMAIN rows}
            S == out.series
            RowsOf(name) == {k \in DOMAIN rows : Str(rows[k].series) = name}
        IN  /\ \A i, j \in DOMAIN S : i # j => S[i].name # S[j].name
            /\ {S[i].name : i \in DOMAIN S} = {Str(v) : v \in values}
            /\ Len(S) = Cardinality(values)
            /\ \A i \in DOMAIN S :
                  /\ Len(S[i].data) = Cardinality(RowsOf(S[i].name))
                  /\ \A k \in RowsOf(S[i].name) :
                        \E j \in DOMAIN S[i].data :
                            S[i].data[j] = [x |-> rows[k].x, y |-> rows[k].y]
                  /\ \A j \in DOMAIN S[i].data :
                        \E k \in RowsOf(S[i].name) :
                            S[i].data[j] = [x |-> rows[k].x, y |-> rows[k].y]

WitC12_TwoSeries ==
    /\ req.svc = "sop" /\ req.op = "chart" /\ req.series_by # <<>>
    /\ out.kind = "response"
    /\ Len(out.series) = 2
    /\ out.series[1].name # out.series[2].name

NoSeriesBy(r) == r.op = "chart" /\ (r.svc = "data" \/ r.series_by = <<>>)

\* The y-columns of a chart request: the list of DataService, the y_axis of
\* SopService.
YColumns(r) == IF r.svc = "data" THEN r.y_columns ELSE <<r.y_axis>>

\* C13 as stated: a chart response for a request without series_by has one
\* series per requested y-column, in request order, each named by the
\* y-column's name.
CexC13_SeriesNamedByColumn ==
    (NoSeriesBy(req) /\ out.kind = "response") =>
        /\ Len(out.series) = Len(YColumns(req))
        /\ \A i \in DOMAIN out.series :
              out.series[i].name =
                  IF req.svc = "data" THEN req.y_columns[i] ELSE req.y_axis[1]

\* C13 amended: one series per requested y-column, in request order; in
\* DataService each is named by the y-column's name, in SopService the one
\* series is named by the display label of the y-column (COLUMN_LABELS), which
\* is the column's name only for a column without a label.
ThmC13_SeriesPerYColumn ==
    (NoSeriesBy(req) /\ out.kind = "response") =>
        /\ Len(out.series) = Len(YColumns(req))
        /\ \A i \in DOMAIN out.series :
              out.series[i].name =
                  IF req.svc = "data" THEN req.y_columns[i]
                  ELSE IF req.y_axis[1] = "value" THEN "Prognoz"
                  ELSE req.y_axis[1]

WitC13_LabelledSeries ==
    /\ req.svc = "sop" /\ NoSeriesBy(req) /\ out.kind = "response"
    /\ req.y_axis = <<"value">>
    /\ out.series[1].name = "Prognoz"
    /\ Len(out.series[1].data) = 2

\* An export whose data query returned no rows.
EmptyExport ==
    /\ req.op = "export" /\ pc = "done"
    /\ Issued("data") # {}
    /\ ResultOf("data") = Returned(<<>>)

\* C14: exporting an empty result set succeeds with a well-formed empty
\* artifact: for CSV a header row and zero data rows, for JSON an empty
\* structure; export_data never raises because the row set is empty.
CexC14_EmptyExportWellFormed ==
    EmptyExport =>
        /\ Issued("upload") # {}
        /\ LET upload == calls[LastCall("upload")]
           IN  IF upload.content_type = "text/csv"
               THEN Len(upload.file_data) = 1 /\ "header" \in DOMAIN upload.file_data[1]
               ELSE upload.file_data = <<"[", "]">>
        /\ out.kind = "error" => out.error = "StorageFailure"

\* A request whose filter is absent or names no condition.
EmptyFilter(r) ==
    IF r.svc = "data" THEN ~r.filters.some \/ r.filters.conditions = <<>>
    ELSE \/ ~r.filters.some
         \/ /\ \A f \in DOMAIN r.filters.lists : ~Truthy(r.filters.lists[f])
            /\ r.filters.search = NoneV

\* The calls that carry the request's filter: every query but the lookup of
\* the data source and the query for the column types.
FilteredCalls == {i \in QueryCalls : calls[i].role \notin {"lookup", "columns"}}

\* C15: an absent filter, or one with an empty condition list, translates to no
\* filter: the queries of the request have no WHERE clause and no parameter
\* but the pagination ones.
ThmC15_EmptyFilterIsNoFilter ==
    (pc # "idle" /\ EmptyFilter(req)) =>
        \A i \in FilteredCalls :
            /\ NumKind(calls[i].text, "ph") = Cardinality(DOMAIN calls[i].params)
            /\ WherePart(calls[i].text) = <<>>
            /\ \A t \in Range(calls[i].text) : t # Txt("1 = 0")
            /\ DOMAIN calls[i].params \subseteq {<<"limit">>, <<"offset">>}

WitC15_EmptyConditionList ==
    /\ req.svc = "data" /\ req.op = "query"
    /\ req.filters.some /\ req.filters.conditions = <<>>
    /\ Issued("count") # {}
    /\ calls[LastCall("count")].params = EmptyMap

----------------------------------------------------------------------------
(* Claims about the order and the names of the filter translator *)

\* The members of a set of numbers, ascending.
Ascending(S) ==
    CHOOSE f \in [1..Cardinality(S) -> S] :
        \A a, b \in 1..Cardinality(S) : a < b => f[a] < f[b]

\* The conditions that yield a clause, by list position (from 1), and where
\* the clauses start in a predicate text: at their identifiers.
KeptConditions(cs) == Ascending({i \in DOMAIN cs : ~BetweenShort(cs[i])})
ClauseStarts(text) == Ascending({p \in DOMAIN text : text[p].k = "san"})
ClauseTokens(text, k) ==
    LET starts == ClauseStarts(text)
    IN  SubSeq(text, starts[k],
               IF k < Len(starts) THEN starts[k + 1] - 1 ELSE Len(text))

OperatorText(op) ==
    CASE op = "in" -> " IN "
      [] op = "not_in" -> " NOT IN "
      [] op = "ilike" -> ") LIKE lower("
      [] op = "between" -> " BETWEEN "
      [] op = "is_null" -> " IS NULL"
      [] op = "is_not_null" -> " IS NOT NULL"
      [] OTHER -> ComparisonText(op)

\* What the condition at index i (from 0) binds: f_i to its value, f_i_min and
\* f_i_max to its two bounds, or nothing.
ExpectedBindings(c, i) ==
    LET name == <<"f", "_", IntStr(i)>>
    IN  CASE c.operator = "between" ->
               (<<"f", "_", IntStr(i), "_min">> :> c.values.items[1])
               @@ (<<"f", "_", IntStr(i), "_max">> :> c.values.items[2])
          [] c.operator \in {"is_null", "is_not_null"} -> EmptyMap
          [] c.operator \in {"in", "not_in"} ->
               name :> (IF c.values.some /\ c.values.items # <<>>
                        THEN c.values.items ELSE <<c.value>>)
          [] OTHER -> name :> c.value

\* C16: the clauses of a predicate come in condition-list order; the clause of
\* the condition at index i uses only the parameter f_i (f_i_min and f_i_max
\* for BETWEEN), bound to that condition's value; so the parameter names are
\* pairwise distinct and none is limit or offset.
ThmC16_IndexedParameters ==
    clause.done =>
        LET cs == filters.conditions
            kept == KeptConditions(cs)
            text == clause.text
        IN  /\ Len(ClauseStarts(text)) = Len(kept)
            /\ \A k \in DOMAIN kept :
                  LET c == cs[kept[k]]
                      tokens == ClauseTokens(text, k)
                      bound == ExpectedBindings(c, kept[k] - 1)
                  IN  /\ Txt(OperatorText(c.operator)) \in Range(tokens)
                      /\ PhNames(tokens) = DOMAIN bound
                      /\ \A n \in DOMAIN bound : clause.params[n] = bound[n]
            /\ DOMAIN clause.params =
                  UNION {DOMAIN ExpectedBindings(cs[kept[k]], kept[k] - 1) : k \in DOMAIN kept}
            /\ NumKind(text, "ph") = Cardinality(DOMAIN clause.params)
            /\ DOMAIN clause.params \cap {<<"limit">>, <<"offset">>} = {}

\* Two clauses of different operators, each with its own parameter.
WitC16_TwoIndexedClauses ==
    /\ clause.done
    /\ Len(filters.conditions) = 2
    /\ filters.conditions[1].operator = "in"
    /\ filters.conditions[2].operator = "between"
    /\ DOMAIN clause.params =
          {<<"f", "_", "0">>, <<"f", "_", "1", "_min">>, <<"f", "_", "1", "_max">>}

----------------------------------------------------------------------------
(* Claims about the aggregation query *)

\* An aggregation request with time grouping: a time column and a granularity
\* in DataService; in SopService, whose time columns are fixed, the quarter
\* granularity, for which the handler selects a time expression.
TimeGrouped(r) ==
    /\ r.op = "aggregate"
    /\ IF r.svc = "data" THEN HasTimeBucket(r) ELSE r.time_granularity = "quarter"

\* Where a token first occurs in a text (0 if nowhere).
FirstAt(text, toks) ==
    LET at == {p \in DOMAIN text : text[p] \in toks}
    IN  IF at = {} THEN 0 ELSE CHOOSE p \in at : \A q \in at : p <= q

\* The tokens that end a time expression in a SELECT list, and the names of
\* the time key in GROUP BY and in the response.
TimeKeyInSelect == {Txt(" as time_bucket"), QuarterColumn[1]}
TimeKeyInGroupBy == {Txt("time_bucket"), Txt("quarter")}
TimeKeyInColumns == {<<"time_bucket">>, <<"quarter">>}

\* C17: in an aggregation request with time grouping the synthetic time key is
\* the first grouping key: first in the SELECT list, first in GROUP BY and
\* first in the response's column list, ahead of every plain group_by column.
CexC17_TimeKeyFirst ==
    (TimeGrouped(req) /\ Issued("data") # {}) =>
        LET text == calls[LastCall("data")].text
            sep == FirstAt(text, {Txt(", "), Txt(" FROM ")})
            grp == FirstAt(text, {Txt("GROUP BY ")})
        IN  /\ sep > 1 /\ text[sep - 1] \in TimeKeyInSelect
            /\ grp > 0 /\ text[grp + 1] \in TimeKeyInGroupBy
            /\ out.kind = "response" => out.columns[1] \in TimeKeyInColumns

\* The same for DataService alone.
DataTimeKeyFirst ==
    (req.svc = "data" /\ TimeGrouped(req) /\ Issued("data") # {}) =>
        LET text == calls[LastCall("data")].text
            sep == FirstAt(text, {Txt(", "), Txt(" FROM ")})
            grp == FirstAt(text, {Txt("GROUP BY ")})
        IN  /\ sep > 1 /\ text[sep - 1] = Txt(" as time_bucket")
            /\ grp > 0 /\ text[grp + 1] = Txt("time_bucket")
            /\ out.kind = "response" => out.columns[1] = <<"time_bucket">>

\* What follows ORDER BY in an aggregation query, up to LIMIT; nothing when
\* the query has no ORDER BY.
OrderPart(text) ==
    LET ord == FirstAt(text, {Txt("ORDER BY "), Txt(" ORDER BY ")})
        lim == FirstAt(text, {Txt(" LIMIT ")})
    IN  IF ord = 0 THEN <<>> ELSE SubSeq(text, ord + 1, lim - 1)

\* An identifier as the query names it: its characters of the allowed class,
\* between quotes.
Named(field) ==
    <<Quote, San(SelectSeq(field, LAMBDA ch : ch \notin OutsideClass)), Quote>>

\* The explicit sort of a request as ORDER BY items.
RECURSIVE ExplicitOrder(_)
ExplicitOrder(sort) ==
    IF sort = <<>> THEN <<>>
    ELSE Named(Head(sort).field)
         \o <<Txt(IF Head(sort).order = "desc" THEN " DESC" ELSE " ASC")>>
         \o (IF Len(sort) > 1 THEN <<Txt(", ")>> ELSE <<>>)
         \o ExplicitOrder(Tail(sort))

\* C18: an aggregation query with no explicit sort and at least one grouping
\* key is ordered by the first grouping key, ascending; with no explicit sort
\* and no grouping it has no ORDER BY derived from a group key; with an
\* explicit sort it is ordered by the explicit sort alone.
ThmC18_DefaultOrder ==
    (req.op = "aggregate" /\ Issued("data") # {}) =>
        LET text == calls[LastCall("data")].text
            order == OrderPart(text)
        IN  IF req.svc = "data"
            THEN IF req.sort # <<>> THEN order = ExplicitOrder(req.sort)
                 ELSE IF HasTimeBucket(req) THEN order = <<Txt("time_bucket")>>
                 ELSE IF req.group_by # <<>> THEN order = Named(req.group_by[1])
                 ELSE order = <<>> /\ FirstAt(text, {Txt("ORDER BY ")}) = 0
            ELSE IF req.group_by # <<>>
                 THEN Len(order) = 1 /\ order[1].v = req.group_by[1]
                 ELSE order = <<Txt("1")>>

WitC18_FirstKey ==
    /\ req.svc = "data" /\ req.op = "aggregate" /\ Issued("data") # {}
    /\ req.sort = <<>> /\ Len(req.group_by) = 2 /\ ~HasTimeBucket(req)
    /\ OrderPart(calls[LastCall("data")].text) = Named(req.group_by[1])

----------------------------------------------------------------------------
(* Claims about chart labels and exports *)

\* C19 as stated: in a chart response the y-axis label is set if and only if
\* the response has exactly one series.
CexC19_LabelIffOneSeries ==
    (req.op = "chart" /\ out.kind = "response") =>
        (out.y_axis_label.some <=> Len(out.series) = 1)

\* C19 amended: DataService sets the y-axis label, to the y-column's name, if
\* and only if the request has exactly one y-column, which is when the
\* response has exactly one series; SopService, whose request has one y-axis,
\* always sets it, to the display label of the y-axis column, whatever the
\* number of series that series_by makes.
ThmC19_YAxisLabel ==
    (req.op = "chart" /\ out.kind = "response") =>
        IF req.svc = "data"
        THEN /\ Len(out.series) = Len(req.y_columns)
             /\ out.y_axis_label.some <=> Len(out.series) = 1
             /\ out.y_axis_label.some => out.y_axis_label.name = req.y_columns[1]
        ELSE /\ out.y_axis_label.some
             /\ out.y_axis_label.name =
                   (IF req.y_axis[1] = "value" THEN "Prognoz" ELSE req.y_axis[1])

WitC19_LabelWithTwoSeries ==
    /\ req.svc = "sop" /\ req.op = "chart" /\ out.kind = "response"
    /\ Len(out.series) = 2
    /\ out.y_axis_label.some

\* A file that holds the rows: between brackets for JSON; for CSV after one
\* header line, or nothing at all when there are no rows.
EncodesRows(file, content_type, rows) ==
    IF content_type = "application/json"
    THEN Len(file) = Len(rows) + 2 /\ SubSeq(file, 2, Len(file) - 1) = rows
    ELSE IF rows = <<>> THEN file = <<>>
    ELSE Len(file) = Len(rows) + 1 /\ Tail(file) = rows

\* C20: the external calls of export_data come in the order data query,
\* upload of the encoded rows, presigned-URL request; the URL is requested only
\* after the upload returned and the response comes only after both, with
\* row_count the number of rows fetched and file_size the length of what was
\* uploaded; when the upload fails no URL is requested and no response is
\* returned.
ThmC20_ExportCallOrder ==
    req.op = "export" =>
        LET data == Issued("data")
            upload == Issued("upload")
            url == Issued("url")
        IN  /\ Cardinality(data) <= 1 /\ Cardinality(upload) <= 1 /\ Cardinality(url) <= 1
            /\ \A u \in upload :
                  /\ \E d \in data : d < u /\ results[d].ok
                  /\ \A d \in data :
                        EncodesRows(calls[u].file_data, calls[u].content_type,
                                    results[d].rows)
            /\ \A g \in url : \E u \in upload : u < g /\ results[u].ok
            /\ \A u \in upload : ~results[u].ok => url = {} /\ out.kind = "error"
            /\ out.kind = "response" =>
                  /\ pc = "done"
                  /\ \E d \in data, u \in upload, g \in url :
                        /\ d < u /\ u < g
                        /\ results[g].ok
                        /\ out.row_count = Len(results[d].rows)
                        /\ out.file_size = Len(calls[u].file_data)

WitC20_ExportDone ==
    /\ req.op = "export" /\ out.kind = "response"
    /\ out.row_count = 2 /\ out.file_size = 3

----------------------------------------------------------------------------
(* Requests of several queries *)

StorageRoles == {"upload", "url"}

\* The executor queries issued so far, the table lookup aside.
Queries == {i \in DOMAIN calls : calls[i].role \notin StorageRoles \cup {"lookup"}}

\* How many queries a handler issues before it answers.
QueriesNeeded(r) ==
    CASE r.svc = "data" /\ r.op = "query" -> 3
      [] r.svc = "data" /\ r.op = "chart" -> Len(r.y_columns)
      [] r.svc = "sop" /\ r.op = "query" -> 2
      [] r.svc = "sop" /\ r.op = "options" -> Len(OptionQueries)
      [] OTHER -> 1

\* C21: a request that issues several queries answers only after every one of
\* them has returned; when one fails the request ends with the executor's
\* error and no response, and nothing is issued after the failed query.
ThmC21_AllQueriesOrError ==
    /\ Len(results) <= Len(calls)
    /\ pc # "done" => out.kind = "none"
    /\ \A i \in DOMAIN results :
          (~results[i].ok /\ calls[i].role \notin StorageRoles) =>
              /\ i = Len(calls)
              /\ pc = "done"
              /\ out = ErrorOut("ExecutorFailure")
    /\ out.kind = "response" =>
          /\ Len(results) = Len(calls)
          /\ \A i \in DOMAIN results : results[i].ok
          /\ Cardinality(Queries) = QueriesNeeded(req)

\* A request whose second or later query failed.
WitC21_LaterQueryFailed ==
    /\ pc = "done" /\ out = ErrorOut("ExecutorFailure")
    /\ req.op \in {"query", "chart", "options"}
    /\ Cardinality(Queries) >= 2
    /\ ~results[Len(results)].ok
    /\ \A i \in 1..(Len(results) - 1) : results[i].ok

----------------------------------------------------------------------------
(* Pages and totals while the store is written *)

\* The engine with a store that nobody writes.
SpecNoWrites == Init /\ [][Next /\ store' = store]_vars

\* C22: in every response of query_data the number of rows displayed is what
\* the reported total leaves for the page,
\* len(data) = min(page_size, max(0, total - offset)), also while other
\* requests write to the store.  (It holds under SpecNoWrites; under Spec a
\* write between the row query and the count query breaks it.)
CexC22_PageMatchesTotal ==
    (out.kind = "response" /\ req.op = "query") =>
        LET left == IF out.total > Offset(req) THEN out.total - Offset(req) ELSE 0
        IN  Len(out.data) = IF req.page_size < left THEN req.page_size ELSE left

----------------------------------------------------------------------------
(* The time function alone *)

MaxColumnLen == 2

Granularities == {"minute", "hour", "day", "week", "month", "quarter", "year"}

\* What _get_time_function is called with: a member of TimeGranularity or
\* anything else, and a column name of any characters.
TimeInputs ==
    {[svc |-> "data", op |-> "time", granularity |-> g, column |-> c] :
        g \in Granularities \cup {"decade", "DAY", NoneV},
        c \in SeqsUpTo({"t", "_", ";", " "}, MaxColumnLen)}

InitTime ==
    /\ pc = "idle"
    /\ req \in TimeInputs
    /\ table = <<>> /\ calls = <<>> /\ results = <<>> /\ out = NoOut
    /\ filters = NoFilters /\ clause = NoClause /\ store = 0 /\ db = NoDb

\* One call of DataService._get_time_function(granularity, column).
TimeFunction ==
    /\ pc = "idle"
    /\ out' = [kind |-> "response",
               text |-> GetTimeFunction(req.granularity, req.column)]
    /\ pc' = "done"
    /\ UNCHANGED <<req, table, calls, results, filters, clause, store, db>>

NextTime == TimeFunction

SpecTime == InitTime /\ [][NextTime]_vars

\* The name of the truncation function of a granularity.
TruncationOf(g) ==
    "toStartOf" \o
    [minute |-> "Minute", hour |-> "Hour", day |-> "Day", week |-> "Week",
     month |-> "Month", quarter |-> "Quarter", year |-> "Year"][g]

\* C23: _get_time_function returns, for each of the seven granularities, its
\* truncation function applied to the sanitized column, and for any other
\* granularity the sanitized column alone; it returns for every input.
ThmC23_TimeFunction ==
    /\ pc = "done" =>
          /\ out.kind = "response"
          /\ LET col == <<Quote, San(SelectSeq(req.column, IsAllowedChar)), Quote>>
             IN  out.text =
                    IF req.granularity \in Granularities
                    THEN <<Txt(TruncationOf(req.granularity)), Txt("(")>> \o col
                             \o <<Txt(")")>>
                    ELSE col
    /\ pc = "idle" => ENABLED TimeFunction

\* An unknown granularity over a column with characters outside the class.
WitC23_UnknownGranularity ==
    /\ pc = "done" /\ req.granularity = "decade" /\ req.column = <<"t", ";">>
    /\ out.text = <<Quote, San(<<"t">>), Quote>>

----------------------------------------------------------------------------
(* What the list operators bind *)

\* C24: an IN or NOT_IN condition binds its parameter to the values list
\* whenever values is present, the empty list included, and to the one-element
\* list of its value only when values is absent.
CexC24_ListBindsValuesWhenPresent ==
    clause.done =>
        \A i \in DOMAIN filters.conditions :
            LET c == filters.conditions[i]
            IN  c.operator \in {"in", "not_in"} =>
                    clause.params[<<"f", "_", IntStr(i - 1)>>] =
                        IF c.values.some THEN c.values.items ELSE <<c.value>>

----------------------------------------------------------------------------
(* SopService: grouped and selected columns *)

\* The names at the positions ps of a text, as a set.
NamesAt(text, ps) == {text[p].v : p \in ps}

\* The plain columns of a SELECT list: the quoted names that are not the
\* argument of a function, and the quarter expression under its alias.
SelectedKeys(text) ==
    LET from == FirstAt(text, {Txt(" FROM ")})
    IN  NamesAt(text, {p \in 3..(from - 1) :
                          text[p].k = "san" /\ text[p - 2] # Txt("(")})
        \cup (IF \E p \in 1..(from - 1) : text[p] = QuarterColumn[1]
              THEN {<<"quarter">>} ELSE {})

\* The columns named after GROUP BY and after ORDER BY (the ordinal 1 names
\* no column).
GroupedKeys(text) ==
    LET grp == FirstAt(text, {Txt("GROUP BY "), Txt(" GROUP BY ")})
        ord == FirstAt(text, {Txt(" ORDER BY ")})
    IN  IF grp = 0 THEN {}
        ELSE NamesAt(text, {p \in (grp + 1)..(ord - 1) : text[p].k \in {"san", "rawident"}})
OrderedKeys(text) ==
    LET ord == FirstAt(text, {Txt(" ORDER BY ")})
        lim == FirstAt(text, {Txt(" LIMIT ")})
    IN  NamesAt(text, {p \in (ord + 1)..(lim - 1) : text[p].k \in {"san", "rawident"}})

\* C25: in the aggregation and chart queries of SopService the columns named
\* in GROUP BY and ORDER BY are exactly the plain columns of the SELECT list,
\* also for a group_by, x_axis or series_by outside the allow-list.
CexC25_GroupedAreSelected ==
    (req.svc = "sop" /\ req.op \in {"aggregate", "chart"} /\ Issued("data") # {}) =>
        LET text == calls[LastCall("data")].text
        IN  GroupedKeys(text) \cup OrderedKeys(text) = SelectedKeys(text)

\* The same for requests whose columns are all in the allow-list and that ask
\* for no quarter.
SopGroupedAreSelectedWhenAllowed ==
    (/\ req.svc = "sop" /\ req.op \in {"aggregate", "chart"} /\ Issued("data") # {}
     /\ req.op = "aggregate" =>
            /\ \A c \in Range(req.group_by) : c[1] \in AllowedColumns
            /\ req.time_granularity # "quarter"
     /\ req.op = "chart" =>
            /\ req.x_axis[1] \in AllowedColumns
            /\ req.series_by # <<>> => req.series_by[1] \in AllowedColumns) =>
        LET text == calls[LastCall("data")].text
        IN  GroupedKeys(text) \cup OrderedKeys(text) = SelectedKeys(text)

----------------------------------------------------------------------------
(* SopService: listed and produced columns *)

\* The parts of a SELECT list, cut at its commas.
RECURSIVE SplitAtCommas(_, _)
SplitAtCommas(text, part) ==
    IF text = <<>> THEN (IF part = <<>> THEN <<>> ELSE <<part>>)
    ELSE IF Head(text) = Txt(", ")
    THEN <<part>> \o SplitAtCommas(Tail(text), <<>>)
    ELSE SplitAtCommas(Tail(text), Append(part, Head(text)))

SelectList(text) ==
    SplitAtCommas(SubSeq(text, 2, FirstAt(text, {Txt(" FROM ")}) - 1), <<>>)

\* The name under which a part of the SELECT list comes back in the rows: its
\* alias if it has one, else the column's name.
OutputName(part) ==
    IF part = QuarterColumn THEN <<"quarter">>
    ELSE IF part = <<Txt("count() as count_value")>> THEN <<"count", "_value">>
    ELSE IF Txt(") as ") \in Range(part)
    THEN <<part[Len(part) - 1].v[1], part[Len(part)].v[1]>>
    ELSE part[2].v

\* C26: the column list of an aggregation response of SopService names exactly
\* the output columns of the SELECT the request issued, in the same order, for
\* every aggregations list and every time_granularity.
CexC26_ColumnsAreSelectOutputs ==
    (req.svc = "sop" /\ req.op = "aggregate" /\ out.kind = "response") =>
        out.columns = Map(OutputName, SelectList(calls[LastCall("data")].text))

\* The same for allowed group_by columns, known aggregation functions and no
\* quarter.
SopColumnsAreSelectOutputsWhenKnown ==
    (/\ req.svc = "sop" /\ req.op = "aggregate" /\ out.kind = "response"
     /\ \A c \in Range(req.group_by) : c[1] \in AllowedColumns
     /\ Range(req.aggregations) \subseteq {"sum", "avg", "count", "min", "max"}
     /\ req.time_granularity # "quarter") =>
        out.columns = Map(OutputName, SelectList(calls[LastCall("data")].text))

----------------------------------------------------------------------------
(* The ClickHouseDatabase handle alone: connect, disconnect and the four
   operations, in any order.  Here calls is the log of what reached a client,
   req the operation called last and out how it ended. *)

MaxClients == 2
MaxDbCalls == 3

DbOperation(op, rows) == [svc |-> "db", op |-> op, rows |-> rows]
DbReturned == [kind |-> "returned"]
RuntimeError == ErrorOut("RuntimeError")

\* The client method each operation awaits.
ClientMethod(op) ==
    CASE op = "execute" -> "command"
      [] op = "fetch_all" -> "query"
      [] op = "fetch_one" -> "query"
      [] op = "insert" -> "insert"

InitDb ==
    /\ pc = "idle" /\ req = NoReq /\ out = NoOut
    /\ table = <<>> /\ calls = <<>> /\ results = <<>>
    /\ filters = NoFilters /\ clause = NoClause /\ store = 0
    /\ db = NoDb

\* connect up to its await: get_async_client is under way, _client is as it
\* was.
DbConnectCall ==
    /\ db.made + db.connecting < MaxClients
    /\ db' = [db EXCEPT !.connecting = @ + 1]
    /\ req' = DbOperation("connect", 0)
    /\ out' = NoOut
    /\ UNCHANGED <<pc, table, calls, results, filters, clause, store>>

\* connect after its await: the new client is assigned to _client.
DbConnectReturn ==
    /\ db.connecting > 0
    /\ db' = [db EXCEPT !.client = db.made + 1, !.made = @ + 1, !.connecting = @ - 1]
    /\ req' = DbOperation("connected", 0)
    /\ out' = DbReturned
    /\ UNCHANGED <<pc, table, calls, results, filters, clause, store>>

\* A disconnect that closes the client and keeps it in _client.
DbDisconnectKeepsClient ==
    /\ db' = [db EXCEPT !.closed = IF db.client # 0 THEN @ \cup {db.client} ELSE @]
    /\ req' = DbOperation("disconnect", 0)
    /\ out' = DbReturned
    /\ UNCHANGED <<pc, table, calls, results, filters, clause, store>>

\* disconnect: "if self._client: close it, set _client to None".
DbDisconnect ==
    /\ db' = IF db.client # 0
             THEN [db EXCEPT !.closed = @ \cup {db.client}, !.client = 0]
             ELSE db
    /\ req' = DbOperation("disconnect", 0)
    /\ out' = DbReturned
    /\ UNCHANGED <<pc, table, calls, results, filters, clause, store>>

\* execute, fetch_all, fetch_one and insert: the client property raises when
\* _client is None, else the client's method is called; insert returns at
\* once for an empty row list.
DbCall(op, rows) ==
    /\ req' = DbOperation(op, rows)
    /\ IF op = "insert" /\ rows = 0
       THEN out' = DbReturned /\ UNCHANGED calls
       ELSE IF db.client = 0
       THEN out' = RuntimeError /\ UNCHANGED calls
       ELSE /\ Len(calls) < MaxDbCalls
            /\ calls' = Append(calls, [op |-> ClientMethod(op), client |-> db.client])
            /\ out' = DbReturned
    /\ UNCHANGED <<pc, table, results, filters, clause, store, db>>

DbExecute == DbCall("execute", 0)
DbFetchAll == DbCall("fetch_all", 0)
DbFetchOne == DbCall("fetch_one", 0)
DbInsert == \E rows \in 0..1 : DbCall("insert", rows)

NextDb ==
    \/ DbConnectCall
    \/ DbConnectReturn
    \/ DbDisconnect
    \/ DbExecute
    \/ DbFetchAll
    \/ DbFetchOne
    \/ DbInsert

SpecDb == InitDb /\ [][NextDb]_vars

\* The operation of a step reaches the client, the client being open.
ReachesClient ==
    /\ db.client # 0 /\ db.client \notin db.closed
    /\ calls' = Append(calls, [op |-> ClientMethod(req'.op), client |-> db.client])
    /\ out' = DbReturned

\* What a step of the handle may do, by the operation called (req').
HandleStep ==
    /\ calls' # calls => ReachesClient
    /\ req'.op \in {"execute", "fetch_all", "fetch_one"} =>
          /\ db' = db
          /\ IF db.client = 0 THEN out' = RuntimeError /\ calls' = calls
             ELSE ReachesClient
    /\ req'.op = "insert" =>
          /\ db' = db
          /\ IF req'.rows = 0 THEN out' = DbReturned /\ calls' = calls
             ELSE IF db.client = 0 THEN out' = RuntimeError /\ calls' = calls
             ELSE ReachesClient
    /\ req'.op = "disconnect" =>
          /\ out' = DbReturned /\ calls' = calls
          /\ db'.client = 0
          /\ db'.closed = IF db.client = 0 THEN db.closed ELSE db.closed \cup {db.client}

\* C27: the four operations reach a client only while the handle holds an open
\* one; called on a handle without a client they raise RuntimeError and reach
\* nothing, and insert of no rows returns without touching the client; a
\* disconnect leaves the handle without a client and closes only the client
\* the handle held, so a second disconnect changes nothing; the handle never
\* holds a closed client.
ThmC27_ClientLifecycle ==
    /\ [](db.client # 0 => db.client \notin db.closed)
    /\ [][HandleStep]_vars

\* A query that reached the first client, then, after a disconnect, one that
\* raised.
WitC27_RaisesAfterDisconnect ==
    /\ calls # <<>> /\ calls[1].client = 1
    /\ 1 \in db.closed /\ db.client = 0
    /\ req.op = "fetch_all" /\ out = RuntimeError

----------------------------------------------------------------------------
(* SopService: the order of series and points *)

\* C28: a chart response of SopService for a request with series_by counts in
\* total_points the rows the executor returned; its series come in the order
\* in which their discriminator values first occur in the rows, and the points
\* of each series are the points of its rows in row order.
ThmC28_SeriesKeepRowOrder ==
    (req.svc = "sop" /\ req.op = "chart" /\ req.series_by # <<>>
        /\ out.kind = "response") =>
        LET rows == ChartRowsReturned
            S == out.series
            RowsOf(name) == Ascending({k \in DOMAIN rows : Str(rows[k].series) = name})
        IN  /\ out.total_points = Len(rows)
            /\ \A i \in DOMAIN S : RowsOf(S[i].name) # <<>>
            /\ \A i, j \in DOMAIN S :
                  i < j => RowsOf(S[i].name)[1] < RowsOf(S[j].name)[1]
            /\ \A i \in DOMAIN S :
                  /\ Len(S[i].data) = Len(RowsOf(S[i].name))
                  /\ \A j \in DOMAIN S[i].data :
                        LET row == rows[RowsOf(S[i].name)[j]]
                        IN  S[i].data[j] = [x |-> row.x, y |-> row.y]

\* Two rows of one series, with different points.
WitC28_TwoPointsOneSeries ==
    /\ req.svc = "sop" /\ req.op = "chart" /\ req.series_by # <<>>
    /\ out.kind = "response"
    /\ Len(out.series) = 1 /\ Len(out.series[1].data) = 2
    /\ out.series[1].data[1] # out.series[1].data[2]
    /\ out.total_points = 2

----------------------------------------------------------------------------
(* The page count alone, as the three places compute it *)

MaxPageTotal == 7
MaxPageSize == 4

\* PaginatedResponse.create: pages
CreatePages(total, page_size) ==
    IF page_size > 0 THEN (total + page_size - 1) \div page_size ELSE 0

NotComputed == [some |-> FALSE, pages |-> 0]
Computed(n) == [some |-> TRUE, pages |-> n]

\* A total as count() returns it and a page size as the request schemas admit
\* it (ge=1).
InitPages ==
    /\ pc = "idle"
    /\ \E total \in 0..MaxPageTotal, page_size \in 1..MaxPageSize :
          req = [svc |-> "pages", op |-> "pages", total |-> total, page_size |-> page_size]
    /\ out = [kind |-> "pages", data |-> NotComputed, sop |-> NotComputed,
              create |-> NotComputed]
    /\ table = <<>> /\ calls = <<>> /\ results = <<>>
    /\ filters = NoFilters /\ clause = NoClause /\ store = 0 /\ db = NoDb

\* pages as DataService.query_data computes it.
DataPages ==
    /\ ~out.data.some
    /\ out' = [out EXCEPT !.data = Computed(Pages(req.total, req.page_size))]
    /\ UNCHANGED <<pc, req, table, calls, results, filters, clause, store, db>>

\* pages as SopService.query_data computes it.
SopPagesStep ==
    /\ ~out.sop.some
    /\ out' = [out EXCEPT !.sop = Computed(SopPages(req.total, req.page_size))]
    /\ UNCHANGED <<pc, req, table, calls, results, filters, clause, store, db>>

\* pages as PaginatedResponse.create computes it.
CreatePagesStep ==
    /\ ~out.create.some
    /\ out' = [out EXCEPT !.create = Computed(CreatePages(req.total, req.page_size))]
    /\ UNCHANGED <<pc, req, table, calls, results, filters, clause, store, db>>

NextPages ==
    \/ DataPages
    \/ SopPagesStep
    \/ CreatePagesStep

SpecPages == InitPages /\ [][NextPages]_vars

\* n is the least number of pages of the given size that hold total items.
IsCeiling(n, total, page_size) ==
    /\ n = 0 <=> total = 0
    /\ n # 0 => n * page_size >= total /\ total > (n - 1) * page_size

\* C29: for a page size of at least 1 the pages field is ceil(total /
\* page_size): 0 exactly when total is 0, else pages * page_size >= total >
\* (pages - 1) * page_size; DataService.query_data, SopService.query_data and
\* PaginatedResponse.create compute the same value.
ThmC29_PagesIsCeiling ==
    LET computed == {f \in {out.data, out.sop, out.create} : f.some}
    IN  /\ \A f \in computed : IsCeiling(f.pages, req.total, req.page_size)
        /\ \A f, g \in computed : f.pages = g.pages

\* All three computed for a total that leaves the last page partly filled.
WitC29_PartlyFilledLastPage ==
    /\ out.data.some /\ out.sop.some /\ out.create.some
    /\ req.total = 7 /\ req.page_size = 3
    /\ out.data.pages = 3

----------------------------------------------------------------------------
(* The logic string of a filter set *)

\* The spellings of "and" in upper and lower case letters.
AndSpellings == {"AND", "ANd", "AnD", "And", "aND", "aNd", "anD", "and"}

\* C30: the clauses of a predicate are joined with AND exactly when the logic
\* string is "and" in some mix of upper and lower case, and with OR for every
\* other logic string; the translation ends without an error whatever the
\* logic string is.
ThmC30_LogicIsAndOrElseOr ==
    /\ (~clause.done) => ENABLED TranslateFilter
    /\ clause.done =>
          LET kept == Len(KeptConditions(filters.conditions))
              joins == IF kept = 0 THEN 0 ELSE kept - 1
              and == filters.logic \in AndSpellings
          IN  /\ clause.error = "none"
              /\ NumJoins(clause.text, " AND ") = IF and THEN joins ELSE 0
              /\ NumJoins(clause.text, " OR ") = IF and THEN 0 ELSE joins

\* Two clauses under the logic string "And".
WitC30_MixedCaseAnd ==
    /\ clause.done /\ filters.logic = "And"
    /\ Len(KeptConditions(filters.conditions)) = 2
    /\ NumJoins(clause.text, " AND ") = 1

====
